---- MODULE Spec2Model ----
(***************************************************************************)
(* A model of the document store layer (src/src/index.js): a collection   *)
(* API with secondary indexes over an ordered key-value store.            *)
(*                                                                         *)
(* JavaScript values are modelled as follows.                              *)
(*   - "undefined or an object" is a set with at most one element: {} is   *)
(*     undefined, {o} is the object o.                                     *)
(*   - an object is a function from the names of the properties it has to  *)
(*     their values; a property it does not have reads as Undef.           *)
(*   - a key of the key-value store is a tuple: <<name>> for the store     *)
(*     record, <<name, collection, key>> for an item, and                  *)
(*     <<name, collection:index, v1, .., vn, key>> for an index entry.     *)
(*   - the key-value store is a function from the keys it holds to their   *)
(*     values.                                                             *)
(***************************************************************************)
EXTENDS Integers, Sequences, FiniteSets, TLC

\* ------------------------------------------------------------- bounds
\* Item keys are 1..MaxKey.
MaxKey == 2
\* forEach stops being followed after this many calls of fn beyond MaxKey.
MaxExtraVisits == 2
\* The batch size of the forEach of _addIndex (250 in the source), scaled
\* down so that the items of a collection take more than one batch.
DefaultBatchSize == 1
\* A process is started again at most this many times.
MaxRestarts == 2
\* fn puts or deletes at most this many items in one transaction.
MaxOps == 2

\* ---------------------------------------------------------- constants
VERSION == 3

StoreName == "S"
Undef == 0
Keys == 1..MaxKey
Fields == {"a", "b", "p"}

\* The values property f takes in the items put: two for "a", which every
\* index has as a key, one for "b" and for "p" (present or absent).
FieldVals(f) == IF f = "a" THEN {1, 2} ELSE {1}
Vals == UNION {FieldVals(f) : f \in Fields}

\* Every item: an object over Fields.
Items ==
  UNION { {o \in [S -> Vals] : \A f \in S : o[f] \in FieldVals(f)} : S \in SUBSET Fields }

Prop(obj, k) == IF k \in DOMAIN obj THEN obj[k] ELSE Undef
Range(seq) == {seq[i] : i \in 1..Len(seq)}
Includes(seq, v) == v \in Range(seq)
Last(seq) == seq[Len(seq)]

\* flatten(): the items of the model have no nested properties, so the
\* flattened object of an item is the item; flatten(undefined) is {}.
flatten(item) == IF item = {} THEN <<>> ELSE CHOOSE o \in item : TRUE

\* ------------------------------------------------- the key-value store
\* The contract of the key-value engine (an external collaborator).
KvHas(store, key) == key \in DOMAIN store

KvGet(store, key) == IF KvHas(store, key) THEN store[key] ELSE {}

KvWrite(store, key, value) ==
  [x \in DOMAIN store \cup {key} |-> IF x = key THEN value ELSE store[x]]

KvRemove(store, key) == [x \in DOMAIN store \ {key} |-> store[x]]

\* put(key, value, {errorIfExists}): fails on an existing key when asked to.
KvPut(store, key, value, errorIfExists) ==
  IF errorIfExists /\ KvHas(store, key)
    THEN [ok |-> FALSE, store |-> store]
    ELSE [ok |-> TRUE, store |-> KvWrite(store, key, value)]

\* delete(key, {errorIfMissing}): fails on a missing key when asked to.
KvDelete(store, key, errorIfMissing) ==
  IF KvHas(store, key)
    THEN [ok |-> TRUE, store |-> KvRemove(store, key), deleted |-> TRUE]
    ELSE [ok |-> ~errorIfMissing, store |-> store, deleted |-> FALSE]

HasPrefix(key, prefix) ==
  Len(key) >= Len(prefix) /\ SubSeq(key, 1, Len(prefix)) = prefix

Rest(key, prefix) == SubSeq(key, Len(prefix) + 1, Len(key))

\* The order of keys under a prefix: element by element, a proper prefix first.
RECURSIVE TupleLess(_, _)
TupleLess(s, t) ==
  IF s = <<>> THEN t # <<>>
  ELSE IF t = <<>> THEN FALSE
  ELSE IF Head(s) = Head(t) THEN TupleLess(Tail(s), Tail(t))
  ELSE Head(s) < Head(t)

KvKeysUnder(store, prefix) == {k \in DOMAIN store : HasPrefix(k, prefix)}

RECURSIVE SortKeys(_, _)
SortKeys(keys, prefix) ==
  IF keys = {} THEN <<>>
  ELSE LET m == CHOOSE k \in keys :
                  \A j \in keys \ {k} : TupleLess(Rest(k, prefix), Rest(j, prefix))
       IN <<m>> \o SortKeys(keys \ {m}, prefix)

Take(seq, n) == IF n = 0 \/ Len(seq) <= n THEN seq ELSE SubSeq(seq, 1, n)

\* find({prefix, startAfter, limit}): the keys under the prefix in key order,
\* after startAfter (a tuple relative to the prefix; {} when not given), at
\* most limit of them (0: no limit).
KvFind(store, prefix, startAfter, limit) ==
  LET under == KvKeysUnder(store, prefix)
      after == IF startAfter = {} THEN under
               ELSE {k \in under :
                       \E sa \in startAfter : TupleLess(sa, Rest(k, prefix))}
  IN Take(SortKeys(after, prefix), limit)

\* findAndDelete({prefix}): every pair under the prefix is deleted.
KvFindAndDelete(store, prefix) ==
  [x \in DOMAIN store \ KvKeysUnder(store, prefix) |-> store[x]]

\* -------------------------------------------------------- declarations
\* An index declaration: keys (simple properties) and a projection
\* (<<>> when none is declared).
IndexA == [keys |-> <<"a">>, projection |-> <<"p", "b">>]
IndexBA == [keys |-> <<"b", "a">>, projection |-> <<>>]

\* The collection the item operations work on.
CollC == [name |-> "C", indexes |-> <<IndexA, IndexBA>>]

\* ---------------------------------------------------------------- keys
makeIndexName(keys) ==
  LET RECURSIVE join(_)
      join(s) == IF Len(s) = 1 THEN s[1] ELSE s[1] \o "+" \o join(Tail(s))
  IN IF keys = <<>> THEN "" ELSE join(keys)

makeIndexCollectionName(collectionName, indexName) ==
  collectionName \o ":" \o indexName

makeIndexKey(collection, index, values, key) ==
  <<StoreName, makeIndexCollectionName(collection.name, makeIndexName(index.keys))>>
    \o values \o <<key>>

makeItemKey(collection, key) == <<StoreName, collection.name, key>>

\* ------------------------------------------------------------- indexes
Projection(flattenedItem, projection) ==
  LET S == {k \in Range(projection) : Prop(flattenedItem, k) # Undef}
  IN IF S = {} THEN {} ELSE {[k \in S |-> flattenedItem[k]]}

IndexValues(item, index) ==
  [i \in 1..Len(index.keys) |->
     IF item = {} THEN Undef ELSE Prop(flatten(item), index.keys[i])]

\* updateIndex without the deletion of the old entry.
updateIndex_KeepsOldEntry(store, collection, key, oldItem, newItem, index) ==
  LET newValues == IndexValues(newItem, index)
      valuesAreDifferent == IndexValues(oldItem, index) # newValues
      projectionIsDifferent ==
        Projection(flatten(oldItem), index.projection)
          # Projection(flatten(newItem), index.projection)
  IN IF (valuesAreDifferent \/ projectionIsDifferent) /\ ~Includes(newValues, Undef)
       THEN KvPut(store, makeIndexKey(collection, index, newValues, key),
                  Projection(flatten(newItem), index.projection), FALSE)
       ELSE [ok |-> TRUE, store |-> store]

\* updateIndex that writes the entry only when the index values change.
updateIndex_IgnoresProjection(store, collection, key, oldItem, newItem, index) ==
  LET oldValues == IndexValues(oldItem, index)
      newValues == IndexValues(newItem, index)
      valuesAreDifferent == oldValues # newValues
      d == IF valuesAreDifferent /\ ~Includes(oldValues, Undef)
             THEN KvDelete(store, makeIndexKey(collection, index, oldValues, key), TRUE)
             ELSE [ok |-> TRUE, store |-> store, deleted |-> FALSE]
  IN IF ~d.ok THEN [ok |-> FALSE, store |-> store]
     ELSE IF valuesAreDifferent /\ ~Includes(newValues, Undef)
       THEN KvPut(d.store, makeIndexKey(collection, index, newValues, key),
                  Projection(flatten(newItem), index.projection), FALSE)
       ELSE [ok |-> TRUE, store |-> d.store]

updateIndex(store, collection, key, oldItem, newItem, index) ==
  LET oldValues == IndexValues(oldItem, index)
      newValues == IndexValues(newItem, index)
      oldProjection == Projection(flatten(oldItem), index.projection)
      newProjection == Projection(flatten(newItem), index.projection)
      valuesAreDifferent == oldValues # newValues
      projectionIsDifferent == oldProjection # newProjection
      d == IF valuesAreDifferent /\ ~Includes(oldValues, Undef)
             THEN KvDelete(store, makeIndexKey(collection, index, oldValues, key), TRUE)
             ELSE [ok |-> TRUE, store |-> store, deleted |-> FALSE]
  IN IF ~d.ok THEN [ok |-> FALSE, store |-> store]
     ELSE IF (valuesAreDifferent \/ projectionIsDifferent) /\ ~Includes(newValues, Undef)
       THEN KvPut(d.store, makeIndexKey(collection, index, newValues, key),
                  newProjection, FALSE)
       ELSE [ok |-> TRUE, store |-> d.store]

\* updateIndexes: updateIndex for each index of the collection from the
\* i-th on, in the order of the declaration; the first failure ends it.
RECURSIVE updateIndexesFrom(_, _, _, _, _, _)
updateIndexesFrom(i, store, collection, key, oldItem, newItem) ==
  IF i > Len(collection.indexes) THEN [ok |-> TRUE, store |-> store]
  ELSE LET r == updateIndex(store, collection, key, oldItem, newItem,
                            collection.indexes[i])
       IN IF r.ok
            THEN updateIndexesFrom(i + 1, r.store, collection, key, oldItem, newItem)
            ELSE r

updateIndexes(store, collection, key, oldItem, newItem) ==
  updateIndexesFrom(1, store, collection, key, oldItem, newItem)

\* ------------------------------------------------------------- find
\* Collection.findIndexForQueryAndOrder: the first declared index whose keys
\* start with the query's keys (in any order) followed by the order's keys;
\* {} when there is none (the call fails).
findIndexForQueryAndOrder(collection, query, order) ==
  LET nq == Cardinality(DOMAIN query)
      fits(index) ==
        /\ Len(index.keys) >= nq + Len(order)
        /\ Range(SubSeq(index.keys, 1, nq)) = DOMAIN query
        /\ SubSeq(index.keys, nq + 1, nq + Len(order)) = order
      found == {i \in 1..Len(collection.indexes) : fits(collection.indexes[i])}
  IN IF found = {} THEN {}
     ELSE {collection.indexes[CHOOSE i \in found : \A j \in found : i <= j]}

makeIndexKeyForQuery(collection, index, query) ==
  <<StoreName, makeIndexCollectionName(collection.name, makeIndexName(index.keys))>>
    \o [i \in 1..Cardinality(DOMAIN query) |-> Prop(query, index.keys[i])]

\* The options of find: query (an object), order (a sequence of properties),
\* startAfter ({} or {a tuple}), limit (0: none), and properties: star for
\* '*', else the list props.
FindOptions(query, order, startAfter, limit, star, props) ==
  [query |-> query, order |-> order, startAfter |-> startAfter, limit |-> limit,
   star |-> star, props |-> props]

\* getMany(collection, keys, {errorIfMissing: false, properties}): the items
\* found, in the order of keys.
RECURSIVE getMany(_, _, _, _)
getMany(store, collection, keys, returnValues) ==
  IF keys = <<>> THEN <<>>
  ELSE LET itemKey == makeItemKey(collection, Head(keys))
           rest == getMany(store, collection, Tail(keys), returnValues)
       IN IF KvHas(store, itemKey)
            THEN <<[key |-> Last(itemKey),
                    value |-> IF returnValues THEN store[itemKey] ELSE {}]>> \o rest
            ELSE rest

_findWithIndex(store, collection, options) ==
  LET found == findIndexForQueryAndOrder(collection, options.query, options.order)
      index == CHOOSE x \in found : TRUE
      useProjection ==
        /\ ~options.star
        /\ options.props # <<>>
        /\ Range(options.props) \ Range(index.projection) = {}
      fetchItem == options.star \/ (options.props # <<>> /\ ~useProjection)
      keys == KvFind(store, makeIndexKeyForQuery(collection, index, options.query),
                     options.startAfter, options.limit)
      items == [i \in 1..Len(keys) |->
                  [key |-> Last(keys[i]),
                   value |-> IF useProjection THEN store[keys[i]] ELSE {}]]
  IN IF found = {} THEN [ok |-> FALSE, items |-> <<>>]
     ELSE IF fetchItem
       THEN [ok |-> TRUE,
             items |-> getMany(store, collection,
                               [i \in 1..Len(items) |-> items[i].key], TRUE)]
       ELSE [ok |-> TRUE, items |-> items]

find(store, collection, options) ==
  IF DOMAIN options.query # {} \/ options.order # <<>>
    THEN _findWithIndex(store, collection, options)
    ELSE LET returnValues == options.star \/ options.props # <<>>
             keys == KvFind(store, <<StoreName, collection.name>>,
                            options.startAfter, options.limit)
         IN [ok |-> TRUE,
             items |-> [i \in 1..Len(keys) |->
                          [key |-> Last(keys[i]),
                           value |-> IF returnValues THEN store[keys[i]] ELSE {}]]]

\* makeOrderKey: reading a property of an undefined value fails.
makeOrderKey(key, value, order) ==
  IF order # <<>> /\ value = {}
    THEN [ok |-> FALSE, orderKey |-> <<>>]
    ELSE [ok |-> TRUE,
          orderKey |-> [i \in 1..Len(order) |-> Prop(flatten(value), order[i])]
                         \o <<key>>]

\* ------------------------------------------------------------- state
VARIABLES
  kv,       \* the key-value store, as every handle reads it
  tr,       \* the store as the open transaction of the handle sees it
  op,       \* the put or delete in progress on the handle
  outcome,  \* how the put or delete that is returning ended: "put:ok", "put:failed",
            \* "delete:ok", "delete:nothing" (no item to delete), "delete:failed";
            \* "none" otherwise
  evt,      \* the events the put or delete in progress has emitted
  fe,       \* the forEach in progress on the handle
  hs,       \* the handles (processes) that open the store: their declarations
            \* and where each is in initializeDocumentStore
  restarts  \* how many times a process was started again

vars == <<kv, tr, op, outcome, evt, fe, hs, restarts>>
itemVars == <<tr, op, outcome, evt, fe>>
schemaVars == <<hs, restarts>>

IdleOp ==
  [pc |-> "idle", kind |-> "none", key |-> 0, item |-> <<>>,
   errorIfExists |-> FALSE, errorIfMissing |-> FALSE, old |-> {}]

IdleForEach ==
  [pc |-> "idle", query |-> <<>>, order |-> <<>>, batchSize |-> 0,
   startAfter |-> {}, visited |-> <<>>]

\* The store record as createDocumentStoreIfDoesNotExist writes it.
toJSON(collection) ==
  [name |-> collection.name, hasBeenRemoved |-> FALSE, indexes |-> collection.indexes]

NewRecord(collections) ==
  [name |-> StoreName, version |-> VERSION, isLocked |-> FALSE,
   collections |-> [i \in 1..Len(collections) |-> toJSON(collections[i])]]

\* -------------------------------------------------------- the handles
\* The processes that open the store, each through a handle of its own.
Handles == {1, 2}

\* The declarations the processes are started with: a collection P with an
\* index on "a", with a second index on "b", with the index on "a" given a
\* projection, and with a second collection Q.
DeclIndexA == [keys |-> <<"a">>, projection |-> <<>>]
DeclIndexAWithB == [keys |-> <<"a">>, projection |-> <<"b">>]
DeclIndexB == [keys |-> <<"b">>, projection |-> <<>>]

CollP(indexes) == [name |-> "P", indexes |-> indexes]
CollQ == [name |-> "Q", indexes |-> <<DeclIndexA>>]

Declarations ==
  { <<CollP(<<DeclIndexA>>)>>,
    <<CollP(<<DeclIndexA, DeclIndexB>>)>>,
    <<CollP(<<DeclIndexAWithB>>)>>,
    <<CollP(<<DeclIndexA>>), CollQ>> }

\* The items the processes put: with and without a value for "b".
DeclItems == {[a |-> 1], [a |-> 1, b |-> 1]}

\* The keys they put them at: every key in P, the first key in Q.
DeclKeys(collection) == IF collection.name = "P" THEN Keys ELSE {1}

\* The callers of the operations of a handle, each with at most one call
\* in progress: its kind ("get", "put", "transaction"), where it is (pc), and
\* what the call made last on its transaction context did.
Callers == {1, 2}
IdleCall == [pc |-> "idle", kind |-> "none", did |-> "none"]

\* A handle as the constructor leaves it. Beside the fields of the class
\* (collections, hasBeenInitialized, isInitializing,
\* migrationDidStartEventHasBeenEmitted) it holds where the handle is in
\* initializeDocumentStore (pc), the locals of the call (record, the
\* positions ci and ii of the loops, existingIndexesKeys, the batch and the
\* startAfter of the forEach of _addIndex, failed: an error is on its way to
\* the caller), and what the call has done: the events emitted, the number
\* of writes to the key-value store, the indexes added, whether the record
\* migrateDocumentStore loaded matched the declarations, and the result;
\* previous holds the events of the call before this one on the handle. rm
\* holds the locals of the removeCollectionsMarkedAsRemoved in progress,
\* calls the calls of the callers.
NewHandle(collections) ==
  [collections |-> collections, pc |-> "new",
   hasBeenInitialized |-> FALSE, isInitializing |-> FALSE,
   migrationDidStartEventHasBeenEmitted |-> FALSE,
   record |-> {}, ci |-> 0, ii |-> 0, existingIndexesKeys |-> <<>>,
   batch |-> <<>>, startAfter |-> {}, failed |-> FALSE,
   events |-> <<>>, writes |-> 0, added |-> {}, matched |-> FALSE,
   result |-> "none", previous |-> <<>>,
   rm |-> [pc |-> "idle", record |-> {}, collectionNames |-> <<>>, i |-> 0],
   calls |-> [c \in Callers |-> IdleCall]]

\* The handle of the item operations: it has created the store.
CreatorHandle(collections) ==
  [NewHandle(collections) EXCEPT
     !.pc = "ready", !.hasBeenInitialized = TRUE,
     !.events = <<"didCreate", "didInitialize">>, !.writes = 1, !.result = "ok"]

\* The first handle has created the store and is initialized.
Init ==
  /\ kv = (<<StoreName>> :> {NewRecord(<<CollC>>)})
  /\ tr = kv
  /\ op = IdleOp
  /\ outcome = "none"
  /\ evt = <<>>
  /\ fe = IdleForEach
  /\ hs = [h \in Handles |->
             IF h = 1 THEN CreatorHandle(<<CollC>>) ELSE NewHandle(<<CollC>>)]
  /\ restarts = 0

\* ------------------------------------------------------------ get
\* get() with the item key left out of the key read.
get_WithoutKey(store, collection, key, errorIfMissing) ==
  LET item == KvGet(store, <<StoreName, collection.name>>)
  IN [ok |-> item # {} \/ ~errorIfMissing, item |-> item]

get(store, collection, key, errorIfMissing) ==
  LET item == KvGet(store, makeItemKey(collection, key))
  IN [ok |-> item # {} \/ ~errorIfMissing, item |-> item]

\* ------------------------------------------------------------ put
\* put(): the transaction opens and reads the old item.
PutBegin(key, item, errorIfExists) ==
  /\ op.pc = "idle"
  /\ fe.pc = "idle"
  /\ op' = [IdleOp EXCEPT !.pc = "put", !.kind = "put", !.key = key, !.item = item,
                          !.errorIfExists = errorIfExists,
                          !.old = KvGet(kv, makeItemKey(CollC, key))]
  /\ tr' = kv
  /\ outcome' = "none"
  /\ evt' = <<>>
  /\ UNCHANGED <<kv, fe, schemaVars>>

\* The transaction fails: nothing of it reaches the store.
Abort ==
  /\ op' = [IdleOp EXCEPT !.pc = "done"]
  /\ tr' = kv
  /\ outcome' = op.kind \o ":failed"
  /\ UNCHANGED <<kv, evt, fe, schemaVars>>

\* tr.store.put(itemKey, item, options)
PutItem ==
  /\ op.pc = "put"
  /\ LET r == KvPut(tr, makeItemKey(CollC, op.key), {op.item}, op.errorIfExists)
     IN IF r.ok
          THEN /\ tr' = r.store
               /\ op' = [op EXCEPT !.pc = "indexes", !.errorIfExists = FALSE,
                                    !.errorIfMissing = FALSE]
               /\ UNCHANGED <<kv, outcome, evt, fe, schemaVars>>
          ELSE Abort

\* updateIndexes called on the root handle: its writes go to the store itself.
UpdateIndexes_OnRoot ==
  /\ op.pc = "indexes"
  /\ LET newItem == IF op.kind = "put" THEN {op.item} ELSE {}
         r == updateIndexes(kv, CollC, op.key, op.old, newItem)
     IN /\ kv' = r.store
        /\ op' = [op EXCEPT !.pc = "emit"]
        /\ UNCHANGED <<tr, outcome, evt, fe, schemaVars>>

\* tr.updateIndexes(collection, key, oldItem, item), with no new item in delete.
UpdateIndexes ==
  /\ op.pc = "indexes"
  /\ LET newItem == IF op.kind = "put" THEN {op.item} ELSE {}
         r == updateIndexes(tr, CollC, op.key, op.old, newItem)
     IN IF r.ok
          THEN /\ tr' = r.store
               /\ op' = [op EXCEPT !.pc = "emit"]
               /\ UNCHANGED <<kv, outcome, evt, fe, schemaVars>>
          ELSE Abort

\* tr.emit('didPutItem') or tr.emit('didDeleteItem')
Emit ==
  /\ op.pc = "emit"
  /\ evt' = Append(evt, IF op.kind = "put" THEN "didPutItem" ELSE "didDeleteItem")
  /\ op' = [op EXCEPT !.pc = "commit"]
  /\ UNCHANGED <<kv, tr, outcome, fe, schemaVars>>

\* fn returned: the key-value transaction commits.
Commit ==
  /\ op.pc = "commit"
  /\ kv' = tr
  /\ op' = [IdleOp EXCEPT !.pc = "done"]
  /\ outcome' = op.kind \o ":ok"
  /\ UNCHANGED <<tr, evt, fe, schemaVars>>

\* ---------------------------------------------------------- delete
\* delete(): the transaction opens and reads the old item; a missing item
\* fails the call (errorIfMissing) or ends it with nothing deleted.
DeleteBegin(key, errorIfMissing) ==
  /\ op.pc = "idle"
  /\ fe.pc = "idle"
  /\ evt' = <<>>
  /\ UNCHANGED <<fe, schemaVars>>
  /\ LET old == KvGet(kv, makeItemKey(CollC, key))
     IN IF old = {}
          THEN /\ op' = [IdleOp EXCEPT !.pc = "done"]
               /\ tr' = kv
               /\ outcome' = IF errorIfMissing THEN "delete:failed" ELSE "delete:nothing"
               /\ UNCHANGED kv
          ELSE /\ op' = [IdleOp EXCEPT !.pc = "delete", !.kind = "delete", !.key = key,
                                       !.errorIfMissing = errorIfMissing, !.old = old]
               /\ tr' = kv
               /\ outcome' = "none"
               /\ UNCHANGED kv

\* tr.store.delete(itemKey, options)
DeleteItem ==
  /\ op.pc = "delete"
  /\ LET r == KvDelete(tr, makeItemKey(CollC, op.key), op.errorIfMissing)
     IN IF r.ok
          THEN /\ tr' = r.store
               /\ op' = [op EXCEPT !.pc = "indexes", !.errorIfExists = FALSE,
                                    !.errorIfMissing = FALSE]
               /\ UNCHANGED <<kv, outcome, evt, fe, schemaVars>>
          ELSE Abort

\* put or delete returns to its caller, or fails to it.
Return ==
  /\ op.pc = "done"
  /\ op' = IdleOp
  /\ outcome' = "none"
  /\ evt' = <<>>
  /\ UNCHANGED <<kv, tr, fe, schemaVars>>

\* --------------------------------------------------------- forEach
\* The queries and orders forEach is called with: every query and order
\* over the index keys "a" and "b" that some declared index fits.
Queries == UNION {[S -> Vals] : S \in SUBSET {"a", "b"}}
Orders == {<<>>, <<"a">>, <<"b">>, <<"a", "b">>, <<"b", "a">>}

\* forEach(collection, {query, order, batchSize}, fn): properties is '*'.
ForEachBegin(query, order, batchSize) ==
  /\ op.pc = "idle"
  /\ fe.pc = "idle"
  /\ DOMAIN query # {} \/ order # <<>>
       => findIndexForQueryAndOrder(CollC, query, order) # {}
  /\ fe' = [IdleForEach EXCEPT !.pc = "run", !.query = query, !.order = order,
                               !.batchSize = batchSize]
  /\ UNCHANGED <<kv, tr, op, outcome, evt, schemaVars>>

\* One turn of the loop of forEach: a find of at most batchSize items, fn
\* on each of them (it records the key), the next startAfter.
ForEachBatch ==
  /\ fe.pc = "run"
  /\ Len(fe.visited) < MaxKey + MaxExtraVisits
  /\ LET r == find(kv, CollC,
                   FindOptions(fe.query, fe.order, fe.startAfter, fe.batchSize,
                               TRUE, <<>>))
         lastItem == Last(r.items)
         k == makeOrderKey(lastItem.key, lastItem.value, fe.order)
     IN IF r.items = <<>>
          THEN fe' = [fe EXCEPT !.pc = "done"]
          ELSE fe' = [fe EXCEPT !.visited = fe.visited
                                   \o [i \in 1..Len(r.items) |-> r.items[i].key],
                                !.startAfter = {k.orderKey}]
  /\ UNCHANGED <<kv, tr, op, outcome, evt, schemaVars>>

\* forEach returns.
ForEachEnd ==
  /\ fe.pc = "done"
  /\ fe' = IdleForEach
  /\ UNCHANGED <<kv, tr, op, outcome, evt, schemaVars>>

Next ==
  \/ \E key \in Keys, item \in Items, e \in BOOLEAN : PutBegin(key, item, e)
  \/ PutItem
  \/ UpdateIndexes
  \/ Emit
  \/ Commit
  \/ \E key \in Keys, e \in BOOLEAN : DeleteBegin(key, e)
  \/ DeleteItem
  \/ Return
  \/ \E query \in Queries, order \in Orders, batchSize \in 1..MaxKey :
       ForEachBegin(query, order, batchSize)
  \/ ForEachBatch
  \/ ForEachEnd

Spec == Init /\ [][Next]_vars

\* ------------------------------------------------ the store record
_loadDocumentStoreRecord(store) == KvGet(store, <<StoreName>>)

_saveDocumentStoreRecord(store, record) == KvWrite(store, <<StoreName>>, {record})

RecordOf(store) == CHOOSE r \in _loadDocumentStoreRecord(store) : TRUE

\* record.collections.find(collec => collec.name === name): its position,
\* 0 when there is none.
FindCollection(collections, name) ==
  LET S == {i \in 1..Len(collections) : collections[i].name = name}
  IN IF S = {} THEN 0 ELSE CHOOSE i \in S : \A j \in S : i <= j

\* indexes.find(index => isEqual(index.keys, keys)): its position, 0 when
\* there is none.
FindIndex(indexes, keys) ==
  LET S == {i \in 1..Len(indexes) : indexes[i].keys = keys}
  IN IF S = {} THEN 0 ELSE CHOOSE i \in S : \A j \in S : i <= j

RemoveAt(seq, i) == SubSeq(seq, 1, i - 1) \o SubSeq(seq, i + 1, Len(seq))

emit(handle, event) == [handle EXCEPT !.events = Append(@, event)]

\* _emitMigrationDidStart that does not look at the flag.
_emitMigrationDidStart_Always(handle) ==
  [emit(handle, "migrationDidStart") EXCEPT
     !.migrationDidStartEventHasBeenEmitted = TRUE]

_emitMigrationDidStart(handle) ==
  IF ~handle.migrationDidStartEventHasBeenEmitted
    THEN [emit(handle, "migrationDidStart") EXCEPT
            !.migrationDidStartEventHasBeenEmitted = TRUE]
    ELSE handle

\* _emitMigrationDidStop that does not look at the flag.
_emitMigrationDidStop_Always(handle) ==
  [emit(handle, "migrationDidStop") EXCEPT
     !.migrationDidStartEventHasBeenEmitted = FALSE]

_emitMigrationDidStop(handle) ==
  IF handle.migrationDidStartEventHasBeenEmitted
    THEN [emit(handle, "migrationDidStop") EXCEPT
            !.migrationDidStartEventHasBeenEmitted = FALSE]
    ELSE handle

\* One step of handle h: its new state and the new store.
Step(h, handle, store) ==
  /\ hs' = [hs EXCEPT ![h] = handle]
  /\ kv' = store
  /\ UNCHANGED <<itemVars, restarts>>

\* initializeDocumentStore returns or fails to its caller: the locals of
\* the call are gone.
Returned(handle, pc, result) ==
  [handle EXCEPT !.pc = pc, !.result = result, !.isInitializing = FALSE,
                 !.record = {}, !.ci = 0, !.ii = 0, !.existingIndexesKeys = <<>>,
                 !.batch = <<>>, !.startAfter = {}, !.failed = FALSE]

\* ------------------------------------------- initializeDocumentStore
\* The handle when a call of initializeDocumentStore has passed the checks
\* of its entry: isInitializing is set and the steps begin.
Entered(handle) ==
  [handle EXCEPT !.pc = "create", !.isInitializing = TRUE,
                 !.events = <<>>, !.writes = 0, !.added = {},
                 !.matched = FALSE, !.result = "none",
                 !.previous = handle.events]

\* The call on a handle that is neither initialized nor initializing, when
\* no removeCollectionsMarkedAsRemoved is in progress on it.
initializeDocumentStore(h) ==
  /\ hs[h].pc = "new"
  /\ hs[h].rm.pc = "idle"
  /\ Step(h, Entered(hs[h]), kv)

\* createDocumentStoreIfDoesNotExist: one key-value transaction. When it
\* has created the record, initializeDocumentStore returns at once.
createDocumentStoreIfDoesNotExist(h) ==
  /\ hs[h].pc = "create"
  /\ IF _loadDocumentStoreRecord(kv) = {}
       THEN Step(h, Returned(
                      [emit(emit(hs[h], "didCreate"), "didInitialize") EXCEPT
                         !.writes = @ + 1, !.hasBeenInitialized = TRUE],
                      "ready", "ok"),
                 _saveDocumentStoreRecord(kv, NewRecord(hs[h].collections)))
       ELSE Step(h, [hs[h] EXCEPT !.pc = "lock"], kv)

\* lockDocumentStore that does not look at isLocked.
lockDocumentStore_Unconditional(h) ==
  /\ hs[h].pc = "lock"
  /\ _loadDocumentStoreRecord(kv) # {}
  /\ Step(h, [hs[h] EXCEPT !.pc = "upgrade", !.writes = @ + 1],
          _saveDocumentStoreRecord(kv, [RecordOf(kv) EXCEPT !.isLocked = TRUE]))

\* The turn that saves isLocked true and does not leave the loop.
lockDocumentStore_StaysInLoop(h) ==
  /\ hs[h].pc = "lock"
  /\ _loadDocumentStoreRecord(kv) # {}
  /\ ~RecordOf(kv).isLocked
  /\ Step(h, [hs[h] EXCEPT !.writes = @ + 1],
          _saveDocumentStoreRecord(kv, [RecordOf(kv) EXCEPT !.isLocked = TRUE]))

\* lockDocumentStore, one turn of its loop that takes the lock: one
\* key-value transaction reads the record with isLocked false and saves it
\* with isLocked true.
lockDocumentStore(h) ==
  /\ hs[h].pc = "lock"
  /\ _loadDocumentStoreRecord(kv) # {}
  /\ ~RecordOf(kv).isLocked
  /\ Step(h, [hs[h] EXCEPT !.pc = "upgrade", !.writes = @ + 1],
          _saveDocumentStoreRecord(kv, [RecordOf(kv) EXCEPT !.isLocked = TRUE]))

\* lockDocumentStore, one turn of its loop that finds the store locked: it
\* sleeps and tries again.
lockDocumentStoreWait(h) ==
  /\ hs[h].pc = "lock"
  /\ _loadDocumentStoreRecord(kv) # {}
  /\ RecordOf(kv).isLocked
  /\ Step(h, hs[h], kv)

\* upgradeDocumentStore that takes a newer record for one of this version.
upgradeDocumentStore_AcceptsNewer(h) ==
  /\ hs[h].pc = "upgrade"
  /\ _loadDocumentStoreRecord(kv) # {}
  /\ IF RecordOf(kv).version >= VERSION
       THEN Step(h, [hs[h] EXCEPT !.pc = "migrate"], kv)
       ELSE Step(h, [emit(hs[h], "upgradeDidStart") EXCEPT
                       !.pc = "unlock", !.failed = TRUE], kv)

\* upgradeDocumentStore that saves the record whatever its version.
upgradeDocumentStore_AlwaysSaves(h) ==
  /\ hs[h].pc = "upgrade"
  /\ _loadDocumentStoreRecord(kv) # {}
  /\ Step(h, [hs[h] EXCEPT !.pc = "migrate", !.writes = @ + 1],
          _saveDocumentStoreRecord(kv, [RecordOf(kv) EXCEPT !.version = VERSION]))

\* upgradeDocumentStore: a record of this version needs nothing; a newer or
\* an older one fails the call, the older one after upgradeDidStart.
upgradeDocumentStore(h) ==
  /\ hs[h].pc = "upgrade"
  /\ _loadDocumentStoreRecord(kv) # {}
  /\ LET version == RecordOf(kv).version
     IN IF version = VERSION
          THEN Step(h, [hs[h] EXCEPT !.pc = "migrate"], kv)
        ELSE IF version > VERSION
          THEN Step(h, [hs[h] EXCEPT !.pc = "unlock", !.failed = TRUE], kv)
        ELSE IF version < 3
          THEN Step(h, [emit(hs[h], "upgradeDidStart") EXCEPT
                          !.pc = "unlock", !.failed = TRUE], kv)
        ELSE Step(h, [emit(emit(hs[h], "upgradeDidStart"), "upgradeDidStop") EXCEPT
                        !.pc = "migrate", !.writes = @ + 1],
                  _saveDocumentStoreRecord(kv, [RecordOf(kv) EXCEPT !.version = VERSION]))

\* unlockDocumentStore, its read of the record.
unlockDocumentStoreLoad(h) ==
  /\ hs[h].pc = "unlock"
  /\ _loadDocumentStoreRecord(kv) # {}
  /\ Step(h, [hs[h] EXCEPT !.pc = "unlockSave",
                           !.record = _loadDocumentStoreRecord(kv)], kv)

\* unlockDocumentStore that is skipped when an error is on its way.
unlockDocumentStoreSave_UnlessFailed(h) ==
  /\ hs[h].pc = "unlockSave"
  /\ LET record == CHOOSE r \in hs[h].record : TRUE
         handle == [hs[h] EXCEPT !.writes = @ + 1]
     IN IF hs[h].failed
          THEN Step(h, Returned(hs[h], "new", "error"), kv)
          ELSE Step(h, Returned([emit(handle, "didInitialize") EXCEPT
                                   !.hasBeenInitialized = TRUE], "ready", "ok"),
                    _saveDocumentStoreRecord(kv, [record EXCEPT !.isLocked = FALSE]))

\* unlockDocumentStore, its save of the record read, with isLocked false;
\* then initializeDocumentStore returns, or fails when an error is on its way.
unlockDocumentStoreSave(h) ==
  /\ hs[h].pc = "unlockSave"
  /\ LET record == CHOOSE r \in hs[h].record : TRUE
         handle == [hs[h] EXCEPT !.writes = @ + 1]
     IN Step(h,
             IF handle.failed
               THEN Returned(handle, "new", "error")
               ELSE Returned([emit(handle, "didInitialize") EXCEPT
                                !.hasBeenInitialized = TRUE], "ready", "ok"),
             _saveDocumentStoreRecord(kv, [record EXCEPT !.isLocked = FALSE]))

\* ---------------------------------------------- migrateDocumentStore
\* The record holds the declarations: every declared collection is in it,
\* live, with the declared indexes (keys and projection), and every other
\* collection of it is marked as removed, with no index.
Reconciled(record, collections) ==
  /\ \A i \in 1..Len(collections) :
       LET e == FindCollection(record.collections, collections[i].name)
       IN /\ e # 0
          /\ ~record.collections[e].hasBeenRemoved
          /\ Len(record.collections[e].indexes) = Len(collections[i].indexes)
          /\ Range(record.collections[e].indexes) = Range(collections[i].indexes)
  /\ \A e \in 1..Len(record.collections) :
       FindCollection(collections, record.collections[e].name) = 0
         => /\ record.collections[e].hasBeenRemoved
            /\ record.collections[e].indexes = <<>>

\* migrateDocumentStore, its read of the record.
migrateDocumentStoreLoad(h) ==
  /\ hs[h].pc = "migrate"
  /\ _loadDocumentStoreRecord(kv) # {}
  /\ Step(h, [hs[h] EXCEPT !.pc = "collection", !.ci = 1,
                           !.record = _loadDocumentStoreRecord(kv),
                           !.matched = Reconciled(RecordOf(kv), hs[h].collections)],
          kv)

\* The record of the call in progress, the declared collection the first
\* loop is at, and the position of its descriptor in the record.
Record(h) == CHOOSE r \in hs[h].record : TRUE
Collection(h) == hs[h].collections[hs[h].ci]
Existing(h) == FindCollection(Record(h).collections, Collection(h).name)

\* The first loop, at a declared collection: one that the record does not
\* have is added and the record saved; one that is marked as removed fails
\* the call; for any other the indexes are looked at. After the last
\* collection the second loop starts.
migrateCollection(h) ==
  /\ hs[h].pc = "collection"
  /\ IF hs[h].ci > Len(hs[h].collections)
       THEN Step(h, [hs[h] EXCEPT !.pc = "removed", !.ci = 1], kv)
     ELSE IF Existing(h) = 0
       THEN LET record == [Record(h) EXCEPT
                             !.collections = Append(@, toJSON(Collection(h)))]
            IN Step(h, [_emitMigrationDidStart(hs[h]) EXCEPT
                          !.record = {record}, !.writes = @ + 1, !.ci = @ + 1],
                    _saveDocumentStoreRecord(kv, record))
     ELSE IF Record(h).collections[Existing(h)].hasBeenRemoved
       THEN Step(h, [_emitMigrationDidStop(hs[h]) EXCEPT
                       !.pc = "unlock", !.failed = TRUE], kv)
     ELSE Step(h, [hs[h] EXCEPT !.pc = "addedIndexes", !.ii = 1], kv)

\* The loop over the declared indexes that records an index the record
\* does not have without building it.
migrateAddedIndex_WithoutBuild(h) ==
  /\ hs[h].pc = "addedIndexes"
  /\ LET existingCollection == Record(h).collections[Existing(h)]
     IN IF hs[h].ii > Len(Collection(h).indexes)
          THEN Step(h, [hs[h] EXCEPT
                          !.pc = "removedIndexes", !.ii = 1,
                          !.existingIndexesKeys =
                            [i \in 1..Len(existingCollection.indexes) |->
                               existingCollection.indexes[i].keys]], kv)
        ELSE IF FindIndex(existingCollection.indexes,
                          Collection(h).indexes[hs[h].ii].keys) # 0
          THEN Step(h, [hs[h] EXCEPT !.ii = @ + 1], kv)
        ELSE Step(h, [_emitMigrationDidStart(hs[h]) EXCEPT !.pc = "addIndexSave"], kv)

\* The loop over the declared indexes, at one of them: an index whose keys
\* the record has is passed; any other is to be built. After the last index
\* the loop over the indexes of the record starts.
migrateAddedIndex(h) ==
  /\ hs[h].pc = "addedIndexes"
  /\ LET existingCollection == Record(h).collections[Existing(h)]
     IN IF hs[h].ii > Len(Collection(h).indexes)
          THEN Step(h, [hs[h] EXCEPT
                          !.pc = "removedIndexes", !.ii = 1,
                          !.existingIndexesKeys =
                            [i \in 1..Len(existingCollection.indexes) |->
                               existingCollection.indexes[i].keys]], kv)
        ELSE IF FindIndex(existingCollection.indexes,
                          Collection(h).indexes[hs[h].ii].keys) # 0
          THEN Step(h, [hs[h] EXCEPT !.ii = @ + 1], kv)
        ELSE Step(h, [_emitMigrationDidStart(hs[h]) EXCEPT
                        !.pc = "addIndex", !.startAfter = {}], kv)

\* _addIndex, one turn of the loop of its forEach: the find of the next
\* batch of items of the collection; an empty batch ends the forEach.
_addIndexFind(h) ==
  /\ hs[h].pc = "addIndex"
  /\ LET r == find(kv, Collection(h),
                   FindOptions(<<>>, <<>>, hs[h].startAfter, DefaultBatchSize,
                               TRUE, <<>>))
     IN IF r.items = <<>>
          THEN Step(h, [hs[h] EXCEPT !.pc = "addIndexSave", !.startAfter = {}], kv)
          ELSE Step(h, [hs[h] EXCEPT !.pc = "addIndexItem", !.batch = r.items], kv)

\* _addIndex, fn on the next item of the batch: updateIndex on the handle
\* itself, with no old item. After the last item of the batch, the
\* startAfter of the next find.
_addIndexItem(h) ==
  /\ hs[h].pc = "addIndexItem"
  /\ LET index == Collection(h).indexes[hs[h].ii]
         item == Head(hs[h].batch)
         r == updateIndex(kv, Collection(h), item.key, {}, item.value, index)
         n == IF Includes(IndexValues(item.value, index), Undef) THEN 0 ELSE 1
         handle == [hs[h] EXCEPT !.batch = Tail(@), !.writes = @ + n]
     IN Step(h,
             IF handle.batch = <<>>
               THEN [handle EXCEPT
                       !.pc = "addIndex",
                       !.startAfter = {makeOrderKey(item.key, item.value, <<>>).orderKey}]
               ELSE handle,
             r.store)

\* After _addIndex: the index is pushed to the descriptor of the collection
\* and the record saved.
migrateAddedIndexSave(h) ==
  /\ hs[h].pc = "addIndexSave"
  /\ LET index == Collection(h).indexes[hs[h].ii]
         record == [Record(h) EXCEPT
                      !.collections[Existing(h)].indexes = Append(@, index)]
     IN Step(h, [hs[h] EXCEPT
                   !.pc = "addedIndexes", !.ii = @ + 1, !.record = {record},
                   !.writes = @ + 1,
                   !.added = @ \cup {<<hs[h].ci, index>>}],
             _saveDocumentStoreRecord(kv, record))

\* The loop over existingIndexesKeys, at one of them: the entries of an
\* index that is not declared are deleted (_removeIndex). After the last,
\* the first loop goes on to the next collection.
migrateRemovedIndex(h) ==
  /\ hs[h].pc = "removedIndexes"
  /\ IF hs[h].ii > Len(hs[h].existingIndexesKeys)
       THEN Step(h, [hs[h] EXCEPT !.pc = "collection", !.ci = @ + 1, !.ii = 0,
                                  !.existingIndexesKeys = <<>>], kv)
     ELSE LET keys == hs[h].existingIndexesKeys[hs[h].ii]
          IN IF FindIndex(Collection(h).indexes, keys) # 0
               THEN Step(h, [hs[h] EXCEPT !.ii = @ + 1], kv)
               ELSE Step(h, [_emitMigrationDidStart(hs[h]) EXCEPT
                               !.pc = "removedIndexSave", !.writes = @ + 1],
                         KvFindAndDelete(kv,
                           <<StoreName,
                             makeIndexCollectionName(Collection(h).name,
                                                     makeIndexName(keys))>>))

\* After _removeIndex: the index is spliced out of the descriptor of the
\* collection and the record saved.
migrateRemovedIndexSave(h) ==
  /\ hs[h].pc = "removedIndexSave"
  /\ LET keys == hs[h].existingIndexesKeys[hs[h].ii]
         i == FindIndex(Record(h).collections[Existing(h)].indexes, keys)
         record == [Record(h) EXCEPT
                      !.collections[Existing(h)].indexes = RemoveAt(@, i)]
     IN Step(h, [hs[h] EXCEPT !.pc = "removedIndexes", !.ii = @ + 1,
                              !.record = {record}, !.writes = @ + 1],
             _saveDocumentStoreRecord(kv, record))

\* The second loop, at a collection of the record: one that is live and
\* not declared is to be marked as removed. After the last, migrationDidStop
\* is emitted when migrationDidStart was, and migrateDocumentStore returns.
migrateRemovedCollection(h) ==
  /\ hs[h].pc = "removed"
  /\ IF hs[h].ci > Len(Record(h).collections)
       THEN Step(h, [_emitMigrationDidStop(hs[h]) EXCEPT !.pc = "unlock", !.ci = 0], kv)
     ELSE LET existingCollection == Record(h).collections[hs[h].ci]
          IN IF \/ existingCollection.hasBeenRemoved
                \/ FindCollection(hs[h].collections, existingCollection.name) # 0
               THEN Step(h, [hs[h] EXCEPT !.ci = @ + 1], kv)
               ELSE Step(h, [_emitMigrationDidStart(hs[h]) EXCEPT
                               !.pc = "removedCollection", !.ii = 1], kv)

\* The collection to mark as removed: the entries of its next index are
\* deleted (_removeIndex); after the last index its descriptor loses its
\* indexes and gets hasBeenRemoved, and the record is saved.
migrateRemovedCollectionIndex(h) ==
  /\ hs[h].pc = "removedCollection"
  /\ LET existingCollection == Record(h).collections[hs[h].ci]
     IN IF hs[h].ii <= Len(existingCollection.indexes)
          THEN Step(h, [hs[h] EXCEPT !.ii = @ + 1, !.writes = @ + 1],
                    KvFindAndDelete(kv,
                      <<StoreName,
                        makeIndexCollectionName(
                          existingCollection.name,
                          makeIndexName(existingCollection.indexes[hs[h].ii].keys))>>))
          ELSE LET record == [Record(h) EXCEPT
                                !.collections[hs[h].ci].indexes = <<>>,
                                !.collections[hs[h].ci].hasBeenRemoved = TRUE]
               IN Step(h, [hs[h] EXCEPT !.pc = "removed", !.ci = @ + 1, !.ii = 0,
                                        !.record = {record}, !.writes = @ + 1],
                       _saveDocumentStoreRecord(kv, record))

\* ------------------------------- removeCollectionsMarkedAsRemoved
\* The call: the record is read and the names of its collections listed.
removeCollectionsLoad(h) ==
  /\ hs[h].pc \in {"new", "ready"}
  /\ hs[h].rm.pc = "idle"
  /\ _loadDocumentStoreRecord(kv) # {}
  /\ Step(h, [hs[h] EXCEPT
                !.rm = [pc |-> "loop", record |-> _loadDocumentStoreRecord(kv),
                        collectionNames |->
                          [i \in 1..Len(RecordOf(kv).collections) |->
                             RecordOf(kv).collections[i].name],
                        i |-> 1]], kv)

\* The loop that does not look at hasBeenRemoved.
removeCollectionsNext_AnyCollection(h) ==
  /\ hs[h].rm.pc = "loop"
  /\ LET rm == hs[h].rm
     IN IF rm.i > Len(rm.collectionNames)
          THEN Step(h, [hs[h] EXCEPT !.rm = NewHandle(<<>>).rm], kv)
          ELSE Step(h, [hs[h] EXCEPT !.rm.pc = "save"],
                    KvFindAndDelete(kv, <<StoreName, rm.collectionNames[rm.i]>>))

\* The loop, at a name: the items of a collection marked as removed are
\* deleted (_removeCollection); a live collection is passed. After the last
\* name the call returns.
removeCollectionsNext(h) ==
  /\ hs[h].rm.pc = "loop"
  /\ LET rm == hs[h].rm
         record == CHOOSE r \in rm.record : TRUE
     IN IF rm.i > Len(rm.collectionNames)
          THEN Step(h, [hs[h] EXCEPT !.rm = NewHandle(<<>>).rm], kv)
        ELSE LET collectionName == rm.collectionNames[rm.i]
                 e == FindCollection(record.collections, collectionName)
             IN IF ~record.collections[e].hasBeenRemoved
                  THEN Step(h, [hs[h] EXCEPT !.rm.i = @ + 1], kv)
                  ELSE Step(h, [hs[h] EXCEPT !.rm.pc = "save"],
                            KvFindAndDelete(kv, <<StoreName, collectionName>>))

\* After _removeCollection: the descriptor of the collection is pulled out
\* of the record and the record saved.
removeCollectionsSave(h) ==
  /\ hs[h].rm.pc = "save"
  /\ LET rm == hs[h].rm
         old == CHOOSE r \in rm.record : TRUE
         e == FindCollection(old.collections, rm.collectionNames[rm.i])
         record == [old EXCEPT !.collections = RemoveAt(@, e)]
     IN Step(h, [hs[h] EXCEPT !.rm.pc = "loop", !.rm.i = @ + 1,
                              !.rm.record = {record}],
             _saveDocumentStoreRecord(kv, record))

\* ------------------------------------- the processes and their stores
\* put(collection, key, item) as the other handles see it: the key-value
\* transaction commits all its writes at once, or none when it fails.
putCommitted(store, collection, key, item) ==
  LET oldItem == KvGet(store, makeItemKey(collection, key))
      p == KvPut(store, makeItemKey(collection, key), {item}, FALSE)
      r == updateIndexes(p.store, collection, key, oldItem, {item})
  IN IF r.ok THEN r.store ELSE store

\* delete(collection, key) as the other handles see it.
deleteCommitted(store, collection, key) ==
  LET oldItem == KvGet(store, makeItemKey(collection, key))
      d == KvDelete(store, makeItemKey(collection, key), FALSE)
      r == updateIndexes(d.store, collection, key, oldItem, {})
  IN IF oldItem # {} /\ r.ok THEN r.store ELSE store

\* An initialized handle puts an item in one of its collections.
put(h, c, key, item) ==
  /\ hs[h].pc = "ready"
  /\ c \in 1..Len(hs[h].collections)
  /\ key \in DeclKeys(hs[h].collections[c])
  /\ Step(h, hs[h], putCommitted(kv, hs[h].collections[c], key, item))

\* An initialized handle deletes an item of one of its collections.
delete(h, c, key) ==
  /\ hs[h].pc = "ready"
  /\ c \in 1..Len(hs[h].collections)
  /\ key \in DeclKeys(hs[h].collections[c])
  /\ Step(h, hs[h], deleteCommitted(kv, hs[h].collections[c], key))

\* The process of handle h ends, after its initializeDocumentStore returned
\* or failed, and is started again with the declarations given.
Restart(h, collections) ==
  /\ hs[h].pc = "ready" \/ (hs[h].pc = "new" /\ hs[h].result = "error")
  /\ hs[h].rm.pc = "idle"
  /\ restarts < MaxRestarts
  /\ hs' = [hs EXCEPT ![h] = NewHandle(collections)]
  /\ restarts' = restarts + 1
  /\ UNCHANGED <<kv, itemVars>>

\* The steps of initializeDocumentStore on handle h.
Initialize(h) ==
  \/ initializeDocumentStore(h)
  \/ createDocumentStoreIfDoesNotExist(h)
  \/ lockDocumentStore(h)
  \/ lockDocumentStoreWait(h)
  \/ upgradeDocumentStore(h)
  \/ migrateDocumentStoreLoad(h)
  \/ migrateCollection(h)
  \/ migrateAddedIndex(h)
  \/ _addIndexFind(h)
  \/ _addIndexItem(h)
  \/ migrateAddedIndexSave(h)
  \/ migrateRemovedIndex(h)
  \/ migrateRemovedIndexSave(h)
  \/ migrateRemovedCollection(h)
  \/ migrateRemovedCollectionIndex(h)
  \/ unlockDocumentStoreLoad(h)
  \/ unlockDocumentStoreSave(h)

\* One process at a time: it opens an empty store, initializes its handle,
\* puts and deletes items, ends, and is started again with declarations
\* that may have changed.
InitOneProcess ==
  /\ kv = <<>>
  /\ tr = kv
  /\ op = IdleOp
  /\ outcome = "none"
  /\ evt = <<>>
  /\ fe = IdleForEach
  /\ \E collections \in Declarations :
       hs = [h \in Handles |->
               IF h = 1 THEN NewHandle(collections) ELSE NewHandle(<<>>)]
  /\ restarts = 0

NextOneProcess ==
  \/ initializeDocumentStore(1)
  \/ createDocumentStoreIfDoesNotExist(1)
  \/ lockDocumentStore(1)
  \/ upgradeDocumentStore(1)
  \/ migrateDocumentStoreLoad(1)
  \/ migrateCollection(1)
  \/ migrateAddedIndex(1)
  \/ _addIndexFind(1)
  \/ _addIndexItem(1)
  \/ migrateAddedIndexSave(1)
  \/ migrateRemovedIndex(1)
  \/ migrateRemovedIndexSave(1)
  \/ migrateRemovedCollection(1)
  \/ migrateRemovedCollectionIndex(1)
  \/ unlockDocumentStoreLoad(1)
  \/ unlockDocumentStoreSave(1)
  \/ \E c \in 1..2, key \in Keys, item \in DeclItems : put(1, c, key, item)
  \/ \E c \in 1..2, key \in Keys : delete(1, c, key)
  \/ \E collections \in Declarations : Restart(1, collections)

SpecOneProcess == InitOneProcess /\ [][NextOneProcess]_vars

\* The store a process with the declarations given has created, with an
\* item at every key of its first collection.
RECURSIVE StoreCreatedFrom(_, _)
StoreCreatedFrom(collections, n) ==
  IF n = 0
    THEN _saveDocumentStoreRecord(<<>>, NewRecord(collections))
    ELSE putCommitted(StoreCreatedFrom(collections, n - 1), collections[1], n,
                      [a |-> 1, b |-> 1])

\* Two processes open, each with declarations of its own, a store that a
\* process before them has created; their initializations interleave.
InitTwoProcesses ==
  /\ \E collections \in Declarations : kv = StoreCreatedFrom(collections, MaxKey)
  /\ tr = kv
  /\ op = IdleOp
  /\ outcome = "none"
  /\ evt = <<>>
  /\ fe = IdleForEach
  /\ hs \in [Handles -> {NewHandle(collections) : collections \in Declarations}]
  /\ restarts = 0

NextTwoProcesses == \E h \in Handles : Initialize(h)

SpecTwoProcesses == InitTwoProcesses /\ [][NextTwoProcesses]_vars

\* The versions a store record may have: those of the releases before this
\* one, this one's, and the next one's.
Versions == 1..(VERSION + 1)

\* A store as another release left it: the record has the version of that
\* release.
StoreOfRelease(version, collections) ==
  _saveDocumentStoreRecord(StoreCreatedFrom(collections, MaxKey),
                           [NewRecord(collections) EXCEPT !.version = version])

\* One process at a time, on a store that is empty or that another release
\* has left; beside what it does in SpecOneProcess, the process calls
\* removeCollectionsMarkedAsRemoved, before or after its initialization.
InitAnyStore ==
  /\ kv \in {<<>>} \cup {StoreOfRelease(version, collections) :
                          version \in Versions \ {VERSION},
                          collections \in Declarations}
  /\ tr = kv
  /\ op = IdleOp
  /\ outcome = "none"
  /\ evt = <<>>
  /\ fe = IdleForEach
  /\ \E collections \in Declarations :
       hs = [h \in Handles |->
               IF h = 1 THEN NewHandle(collections) ELSE NewHandle(<<>>)]
  /\ restarts = 0

NextAnyStore ==
  \/ NextOneProcess
  \/ removeCollectionsLoad(1)
  \/ removeCollectionsNext(1)
  \/ removeCollectionsSave(1)

SpecAnyStore == InitAnyStore /\ [][NextAnyStore]_vars

\* --------------------------------------------- the calls on a handle
\* The call of a caller that is awaiting the initializeDocumentStore it
\* runs goes on as soon as that returns, before any new call is made.
NoneToResume(h) ==
  \A c \in Callers : hs[h].calls[c].pc = "awaitInit" => hs[h].isInitializing

\* The entry of initializeDocumentStore that does not look at isInitializing.
callBegin_IgnoresInitializing(h, c, kind) ==
  /\ hs[h].calls[c].pc = "idle"
  /\ hs[h].rm.pc = "idle"
  /\ NoneToResume(h)
  /\ IF hs[h].hasBeenInitialized
       THEN Step(h, [hs[h] EXCEPT
                       !.calls[c] = [pc |-> "op", kind |-> kind, did |-> "none"]], kv)
       ELSE Step(h, [Entered(hs[h]) EXCEPT
                       !.calls[c] = [pc |-> "awaitInit", kind |-> kind, did |-> "none"]],
                 kv)

\* A caller calls get, put or transaction on the handle: the call awaits
\* initializeDocumentStore, which returns at once on a handle that is
\* initialized or initializing, and runs the steps on any other.
callBegin(h, c, kind) ==
  /\ hs[h].calls[c].pc = "idle"
  /\ hs[h].rm.pc = "idle"
  /\ NoneToResume(h)
  /\ IF hs[h].hasBeenInitialized \/ hs[h].isInitializing
       THEN Step(h, [hs[h] EXCEPT
                       !.calls[c] = [pc |-> "op", kind |-> kind, did |-> "none"]], kv)
       ELSE Step(h, [Entered(hs[h]) EXCEPT
                       !.calls[c] = [pc |-> "awaitInit", kind |-> kind, did |-> "none"]],
                 kv)

\* The initializeDocumentStore a call runs has returned, or failed: the
\* call goes on, or fails.
callResume(h, c) ==
  /\ hs[h].calls[c].pc = "awaitInit"
  /\ ~hs[h].isInitializing
  /\ Step(h, [hs[h] EXCEPT
                !.calls[c] = IF hs[h].result = "ok"
                               THEN [@ EXCEPT !.pc = "op"]
                               ELSE [IdleCall EXCEPT !.did = "failed"]], kv)

\* get or put, past its initializeDocumentStore: the item is read, or put
\* with its index entries.
callAccess(h, c) ==
  /\ hs[h].calls[c].pc = "op"
  /\ hs[h].calls[c].kind \in {"get", "put"}
  /\ Step(h, [hs[h] EXCEPT !.calls[c] = IdleCall],
          IF hs[h].calls[c].kind = "put"
            THEN putCommitted(kv, hs[h].collections[1], 1, [a |-> 1])
            ELSE kv)

\* insideTransaction that is false on every context.
insideTransaction_Never(context) == FALSE

\* insideTransaction: the contexts are the root handle and the transaction
\* contexts made of it.
insideTransaction(context) == context # "root"

\* transaction(fn), past its initializeDocumentStore: the key-value
\* transaction opens and fn is called with a transaction context.
transactionOpen(h, c) ==
  /\ hs[h].calls[c].pc = "op"
  /\ hs[h].calls[c].kind = "transaction"
  /\ Step(h, [hs[h] EXCEPT !.calls[c].pc = "inside"], kv)

\* fn calls initializeDocumentStore on its transaction context, which
\* reads hasBeenInitialized and isInitializing of the root handle.
contextInitialize(h, c) ==
  /\ hs[h].calls[c].pc = "inside"
  /\ Step(h, [hs[h] EXCEPT
                !.calls[c].pc = "insideDone",
                !.calls[c].did =
                  IF hs[h].hasBeenInitialized \/ hs[h].isInitializing
                    THEN "initialize:returned"
                  ELSE IF insideTransaction("transaction")
                    THEN "initialize:error"
                  ELSE "initialize:entered"], kv)

\* fn calls destroyAll on its transaction context.
contextDestroyAll(h, c) ==
  /\ hs[h].calls[c].pc = "inside"
  /\ IF insideTransaction("transaction")
       THEN Step(h, [hs[h] EXCEPT !.calls[c].pc = "insideDone",
                                  !.calls[c].did = "destroyAll:error"], kv)
       ELSE Step(h, [hs[h] EXCEPT !.calls[c].pc = "insideDone",
                                  !.calls[c].did = "destroyAll:done",
                                  !.hasBeenInitialized = FALSE],
                 KvFindAndDelete(kv, <<StoreName>>))

\* fn returns or fails, and transaction with it.
transactionClose(h, c) ==
  /\ hs[h].calls[c].pc \in {"inside", "insideDone"}
  /\ Step(h, [hs[h] EXCEPT !.calls[c] = IdleCall], kv)

\* destroyAll on the root handle, when it is not initializing.
destroyAll(h) ==
  /\ ~hs[h].isInitializing
  /\ hs[h].rm.pc = "idle"
  /\ NoneToResume(h)
  /\ ~insideTransaction("root")
  /\ Step(h, [hs[h] EXCEPT !.pc = "new", !.hasBeenInitialized = FALSE],
          KvFindAndDelete(kv, <<StoreName>>))

\* One process whose callers call get, put, transaction and destroyAll on
\* its handle without awaiting one another, on a store that is empty or
\* that a release has left.
InitCalls ==
  /\ kv \in {<<>>} \cup {StoreOfRelease(version, collections) :
                          version \in Versions, collections \in Declarations}
  /\ tr = kv
  /\ op = IdleOp
  /\ outcome = "none"
  /\ evt = <<>>
  /\ fe = IdleForEach
  /\ \E collections \in Declarations :
       hs = [h \in Handles |->
               IF h = 1 THEN NewHandle(collections) ELSE NewHandle(<<>>)]
  /\ restarts = 0

NextCalls ==
  \/ \E c \in Callers, kind \in {"get", "put", "transaction"} : callBegin(1, c, kind)
  \/ \E c \in Callers : callResume(1, c)
  \/ \E c \in Callers : callAccess(1, c)
  \/ \E c \in Callers : transactionOpen(1, c)
  \/ \E c \in Callers : contextInitialize(1, c)
  \/ \E c \in Callers : contextDestroyAll(1, c)
  \/ \E c \in Callers : transactionClose(1, c)
  \/ destroyAll(1)
  \/ createDocumentStoreIfDoesNotExist(1)
  \/ lockDocumentStore(1)
  \/ upgradeDocumentStore(1)
  \/ migrateDocumentStoreLoad(1)
  \/ migrateCollection(1)
  \/ migrateAddedIndex(1)
  \/ _addIndexFind(1)
  \/ _addIndexItem(1)
  \/ migrateAddedIndexSave(1)
  \/ migrateRemovedIndex(1)
  \/ migrateRemovedIndexSave(1)
  \/ migrateRemovedCollection(1)
  \/ migrateRemovedCollectionIndex(1)
  \/ unlockDocumentStoreLoad(1)
  \/ unlockDocumentStoreSave(1)

SpecCalls == InitCalls /\ [][NextCalls]_vars


\* ------------------------------------------- operations in a transaction
\* transaction(fn) on the root handle, initialized: the key-value
\* transaction opens, and fn is called with a transaction context whose
\* store is that transaction.
transactionBegin(h, c) ==
  /\ hs[h].pc = "ready"
  /\ hs[h].calls[c].pc = "idle"
  /\ op.pc = "idle"
  /\ ~insideTransaction("root")
  /\ hs' = [hs EXCEPT ![h].calls[c] =
                        [pc |-> "inside", kind |-> "transaction", did |-> "none"]]
  /\ tr' = kv
  /\ outcome' = "none"
  /\ evt' = <<>>
  /\ UNCHANGED <<kv, op, fe, restarts>>

\* transaction(fn) on a context that opens a key-value transaction of its
\* own.
contextTransaction_OpensAnother(h, c) ==
  /\ hs[h].calls[c].pc = "inside"
  /\ hs[h].calls[c].did = "none"
  /\ op.pc = "idle"
  /\ hs' = [hs EXCEPT ![h].calls[c].did = "transaction:opened"]
  /\ tr' = kv
  /\ UNCHANGED <<kv, op, outcome, evt, fe, restarts>>

\* fn calls transaction(fn2) on its context: inside a transaction fn2 is
\* called with the same context.
contextTransaction(h, c) ==
  /\ hs[h].calls[c].pc = "inside"
  /\ hs[h].calls[c].did = "none"
  /\ op.pc = "idle"
  /\ IF insideTransaction("transaction")
       THEN /\ hs' = [hs EXCEPT ![h].calls[c].did = "transaction:entered"]
            /\ UNCHANGED tr
       ELSE /\ hs' = [hs EXCEPT ![h].calls[c].did = "transaction:opened"]
            /\ tr' = kv
  /\ UNCHANGED <<kv, op, outcome, evt, fe, restarts>>

\* fn2 returns, and the transaction(fn2) of the context with it.
contextTransactionReturn(h, c) ==
  /\ hs[h].calls[c].pc = "inside"
  /\ hs[h].calls[c].did = "transaction:entered"
  /\ op.pc = "idle"
  /\ hs' = [hs EXCEPT ![h].calls[c].did = "transaction:returned"]
  /\ UNCHANGED <<kv, itemVars, restarts>>

\* fn, or fn2, calls put on the context: its initializeDocumentStore
\* returns at once, its transaction(fn) calls fn with the context, and the
\* old item is read in the key-value transaction.
contextPut(h, c, key, item) ==
  /\ hs[h].calls[c].pc = "inside"
  /\ op.pc = "idle"
  /\ Len(evt) < MaxOps
  /\ insideTransaction("transaction")
  /\ op' = [IdleOp EXCEPT !.pc = "put", !.kind = "put", !.key = key, !.item = item,
                          !.old = KvGet(tr, makeItemKey(CollC, key))]
  /\ UNCHANGED <<kv, tr, outcome, evt, fe, schemaVars>>

\* fn, or fn2, calls delete on the context; with no item at the key,
\* delete returns at once (errorIfMissing is false).
contextDelete(h, c, key) ==
  /\ hs[h].calls[c].pc = "inside"
  /\ op.pc = "idle"
  /\ Len(evt) < MaxOps
  /\ insideTransaction("transaction")
  /\ KvGet(tr, makeItemKey(CollC, key)) # {}
  /\ op' = [IdleOp EXCEPT !.pc = "delete", !.kind = "delete", !.key = key,
                          !.old = KvGet(tr, makeItemKey(CollC, key))]
  /\ UNCHANGED <<kv, tr, outcome, evt, fe, schemaVars>>

\* The put or delete of the context returns to fn: nothing is committed.
contextReturn(h, c) ==
  /\ hs[h].calls[c].pc = "inside"
  /\ op.pc = "commit"
  /\ op' = IdleOp
  /\ UNCHANGED <<kv, tr, outcome, evt, fe, schemaVars>>

\* fn returns: the key-value transaction commits and transaction returns.
transactionCommit(h, c) ==
  /\ hs[h].calls[c].pc = "inside"
  /\ hs[h].calls[c].did # "transaction:entered"
  /\ op.pc = "idle"
  /\ kv' = tr
  /\ outcome' = "transaction:ok"
  /\ hs' = [hs EXCEPT ![h].calls[c].pc = "idle"]
  /\ UNCHANGED <<tr, op, evt, fe, restarts>>

\* fn fails, by itself or in a call it made: the key-value transaction
\* aborts and transaction fails.
transactionFail(h, c) ==
  /\ hs[h].calls[c].pc = "inside"
  /\ tr' = kv
  /\ op' = IdleOp
  /\ outcome' = "transaction:failed"
  /\ hs' = [hs EXCEPT ![h].calls[c].pc = "idle"]
  /\ UNCHANGED <<kv, evt, fe, restarts>>

\* One caller of transaction(fn) on the handle that created the store; fn
\* puts and deletes items of the collection on its context, and calls
\* transaction(fn2) on it, fn2 doing the same.
InitTransactions == Init

NextTransactions ==
  \/ transactionBegin(1, 1)
  \/ contextTransaction(1, 1)
  \/ contextTransactionReturn(1, 1)
  \/ \E key \in Keys, item \in DeclItems : contextPut(1, 1, key, item)
  \/ \E key \in Keys : contextDelete(1, 1, key)
  \/ PutItem
  \/ DeleteItem
  \/ UpdateIndexes
  \/ Emit
  \/ contextReturn(1, 1)
  \/ transactionCommit(1, 1)
  \/ transactionFail(1, 1)

SpecTransactions == InitTransactions /\ [][NextTransactions]_vars



\* ------------------------------------------------- the loop of the lock
\* A caller calls initializeDocumentStore on handle h: for the first time,
\* or again after a call that failed, which the callers do at most
\* MaxRestarts times in all.
callInitialize(h) ==
  /\ hs[h].pc = "new"
  /\ hs[h].rm.pc = "idle"
  /\ hs[h].result = "none" \/ restarts < MaxRestarts
  /\ hs' = [hs EXCEPT ![h] = Entered(hs[h])]
  /\ restarts' = IF hs[h].result = "none" THEN restarts ELSE restarts + 1
  /\ UNCHANGED <<kv, itemVars>>

\* The steps of a call of initializeDocumentStore in progress on handle h.
\* A turn of the loop of lockDocumentStore that finds the store locked
\* changes nothing: it is not among them.
Proceed(h) ==
  \/ createDocumentStoreIfDoesNotExist(h)
  \/ lockDocumentStore(h)
  \/ upgradeDocumentStore(h)
  \/ migrateDocumentStoreLoad(h)
  \/ migrateCollection(h)
  \/ migrateAddedIndex(h)
  \/ _addIndexFind(h)
  \/ _addIndexItem(h)
  \/ migrateAddedIndexSave(h)
  \/ migrateRemovedIndex(h)
  \/ migrateRemovedIndexSave(h)
  \/ migrateRemovedCollection(h)
  \/ migrateRemovedCollectionIndex(h)
  \/ unlockDocumentStoreLoad(h)
  \/ unlockDocumentStoreSave(h)

NextLockLoop ==
  \E h \in Handles : callInitialize(h) \/ lockDocumentStoreWait(h) \/ Proceed(h)

\* Two processes open, each with declarations of its own, a store that a
\* process of this release has created, or that another release has left.
InitLockLoop ==
  /\ kv \in {StoreOfRelease(version, collections) :
               version \in Versions, collections \in Declarations}
  /\ tr = kv
  /\ op = IdleOp
  /\ outcome = "none"
  /\ evt = <<>>
  /\ fe = IdleForEach
  /\ hs \in [Handles -> {NewHandle(collections) : collections \in Declarations}]
  /\ restarts = 0

\* Each process goes on running: a call in progress takes its next step
\* when that step stays possible, and every key-value call and every step
\* of upgradeDocumentStore and migrateDocumentStore returns.
SpecLockLoop ==
  /\ InitLockLoop
  /\ [][NextLockLoop]_vars
  /\ \A h \in Handles : WF_vars(Proceed(h))


\* ------------------- removeCollectionsMarkedAsRemoved beside a migration
\* The store after a process that declared P alone has initialized on the
\* store of a process that declared P and Q: Q is marked as removed, with
\* no index, and its item is still there.
StoreWithRemovedCollection ==
  LET store == StoreCreatedFrom(<<CollP(<<DeclIndexA>>)>>, MaxKey)
      record == [NewRecord(<<CollP(<<DeclIndexA>>), CollQ>>) EXCEPT
                   !.collections[2].indexes = <<>>,
                   !.collections[2].hasBeenRemoved = TRUE]
  IN _saveDocumentStoreRecord(KvWrite(store, makeItemKey(CollQ, 1), {[a |-> 1]}),
                              record)

\* A process (1) that declares P calls removeCollectionsMarkedAsRemoved on
\* that store, while a process (2) with declarations of its own
\* initializes its handle.
InitStaleRecord ==
  /\ kv = StoreWithRemovedCollection
  /\ tr = kv
  /\ op = IdleOp
  /\ outcome = "none"
  /\ evt = <<>>
  /\ fe = IdleForEach
  /\ \E collections \in Declarations :
       hs = [h \in Handles |->
               IF h = 1 THEN NewHandle(<<CollP(<<DeclIndexA>>)>>)
                        ELSE NewHandle(collections)]
  /\ restarts = 0

NextStaleRecord ==
  \/ removeCollectionsLoad(1)
  \/ removeCollectionsNext(1)
  \/ removeCollectionsSave(1)
  \/ initializeDocumentStore(2)
  \/ createDocumentStoreIfDoesNotExist(2)
  \/ lockDocumentStore(2)
  \/ lockDocumentStoreWait(2)
  \/ upgradeDocumentStore(2)
  \/ migrateDocumentStoreLoad(2)
  \/ migrateCollection(2)
  \/ migrateAddedIndex(2)
  \/ _addIndexFind(2)
  \/ _addIndexItem(2)
  \/ migrateAddedIndexSave(2)
  \/ migrateRemovedIndex(2)
  \/ migrateRemovedCollection(2)
  \/ unlockDocumentStoreLoad(2)
  \/ unlockDocumentStoreSave(2)

SpecStaleRecord == InitStaleRecord /\ [][NextStaleRecord]_vars

\* ---------------------------------------------------- findAndDelete
\* The items findAndDelete is tried on: with and without "a" and "b".
FindAndDeleteItems == {o \in Items : "p" \notin DOMAIN o}

\* The store of a handle that declared CollC and put the items given, one
\* at most at every key from 1 to n.
RECURSIVE StoreWith(_, _)
StoreWith(items, n) ==
  IF n = 0
    THEN _saveDocumentStoreRecord(<<>>, NewRecord(<<CollC>>))
    ELSE LET store == StoreWith(items, n - 1)
         IN IF items[n] = {} THEN store
            ELSE putCommitted(store, CollC, n, CHOOSE o \in items[n] : TRUE)

\* No findAndDelete in progress.
IdleFindAndDelete ==
  [pc |-> "idle", query |-> <<>>, order |-> <<>>, batchSize |-> 0,
   startAfter |-> {}, batch |-> <<>>, deletedItemsCount |-> 0,
   result |-> "none", before |-> <<>>]

\* The keys of the items options select in store, as find returns them
\* with no limit.
Matched(store, query, order) ==
  LET r == find(store, CollC, FindOptions(query, order, {}, 0, TRUE, <<>>))
  IN {r.items[i].key : i \in 1..Len(r.items)}

\* findAndDelete(collection, {query, order, batchSize}): properties is set
\* to [], and forEach begins.
findAndDeleteBegin(query, order, batchSize) ==
  /\ fe.pc = "idle"
  /\ op.pc = "idle"
  /\ DOMAIN query # {} \/ order # <<>>
       => findIndexForQueryAndOrder(CollC, query, order) # {}
  /\ fe' = [IdleFindAndDelete EXCEPT !.pc = "find", !.query = query, !.order = order,
                                     !.batchSize = batchSize, !.before = kv]
  /\ UNCHANGED <<kv, tr, op, outcome, evt, schemaVars>>

\* One turn of the loop of forEach: the find of the next batch, with no
\* property asked for; an empty batch ends forEach and findAndDelete returns.
findAndDeleteFind ==
  /\ fe.pc = "find"
  /\ LET r == find(kv, CollC,
                   FindOptions(fe.query, fe.order, fe.startAfter, fe.batchSize,
                               FALSE, <<>>))
     IN IF r.items = <<>>
          THEN fe' = [fe EXCEPT !.pc = "done", !.result = "ok"]
          ELSE fe' = [fe EXCEPT !.pc = "item", !.batch = r.items]
  /\ UNCHANGED <<kv, tr, op, outcome, evt, schemaVars>>

\* fn on the next item of the batch: delete(collection, key,
\* {errorIfMissing: false}), counted when it deleted. After the last item,
\* makeOrderKey of it gives the startAfter of the next find, or fails.
findAndDeleteItem ==
  /\ fe.pc = "item"
  /\ LET item == Head(fe.batch)
         hasBeenDeleted == KvHas(kv, makeItemKey(CollC, item.key))
         k == makeOrderKey(item.key, item.value, fe.order)
         next == [fe EXCEPT !.batch = Tail(@),
                            !.deletedItemsCount = IF hasBeenDeleted THEN @ + 1 ELSE @]
     IN /\ kv' = deleteCommitted(kv, CollC, item.key)
        /\ fe' = IF next.batch # <<>> THEN next
                 ELSE IF k.ok
                   THEN [next EXCEPT !.pc = "find", !.startAfter = {k.orderKey}]
                 ELSE [next EXCEPT !.pc = "done", !.result = "error"]
  /\ UNCHANGED <<tr, op, outcome, evt, schemaVars>>

\* findAndDelete has returned or failed to its caller.
findAndDeleteEnd ==
  /\ fe.pc = "done"
  /\ fe' = IdleFindAndDelete
  /\ UNCHANGED <<kv, tr, op, outcome, evt, schemaVars>>

\* An initialized handle on a store that holds any items of the collection
\* calls findAndDelete, with any query and order that an index fits and
\* any batch size.
InitFindAndDelete ==
  /\ \E items \in [Keys -> {{}} \cup {{o} : o \in FindAndDeleteItems}] :
       kv = StoreWith(items, MaxKey)
  /\ tr = kv
  /\ op = IdleOp
  /\ outcome = "none"
  /\ evt = <<>>
  /\ fe = IdleFindAndDelete
  /\ hs = [h \in Handles |->
             IF h = 1 THEN CreatorHandle(<<CollC>>) ELSE NewHandle(<<CollC>>)]
  /\ restarts = 0

NextFindAndDelete ==
  \/ \E query \in Queries, order \in Orders, batchSize \in 1..MaxKey :
       findAndDeleteBegin(query, order, batchSize)
  \/ findAndDeleteFind
  \/ findAndDeleteItem
  \/ findAndDeleteEnd

SpecFindAndDelete == InitFindAndDelete /\ [][NextFindAndDelete]_vars

\* ------------------------------------- writers during the build of an index
\* A process of an earlier deployment has created the store with the
\* collection P and its index on "a", and its handle (1) is initialized; a
\* process of the next deployment, which declares the index on "b" too,
\* initializes its handle (2); the first puts and deletes items of P while
\* the second is in the forEach of _addIndex.
InitIndexBuild ==
  /\ kv = StoreCreatedFrom(<<CollP(<<DeclIndexA>>)>>, MaxKey)
  /\ tr = kv
  /\ op = IdleOp
  /\ outcome = "none"
  /\ evt = <<>>
  /\ fe = IdleForEach
  /\ hs = [h \in Handles |->
             IF h = 1 THEN CreatorHandle(<<CollP(<<DeclIndexA>>)>>)
                      ELSE NewHandle(<<CollP(<<DeclIndexA, DeclIndexB>>)>>)]
  /\ restarts = 0

\* Where a handle is in the forEach of _addIndex.
ScanSteps == {"addIndex", "addIndexItem"}

\* Handle h, initialized, puts an item while handle g is in the forEach of
\* _addIndex.
putDuringScan(h, g, key, item) ==
  /\ hs[g].pc \in ScanSteps
  /\ put(h, 1, key, item)

\* Handle h, initialized, deletes an item while handle g is in the forEach
\* of _addIndex.
deleteDuringScan(h, g, key) ==
  /\ hs[g].pc \in ScanSteps
  /\ delete(h, 1, key)

NextIndexBuild ==
  \/ initializeDocumentStore(2)
  \/ createDocumentStoreIfDoesNotExist(2)
  \/ lockDocumentStore(2)
  \/ upgradeDocumentStore(2)
  \/ migrateDocumentStoreLoad(2)
  \/ migrateCollection(2)
  \/ migrateAddedIndex(2)
  \/ _addIndexFind(2)
  \/ _addIndexItem(2)
  \/ migrateAddedIndexSave(2)
  \/ migrateRemovedIndex(2)
  \/ migrateRemovedCollection(2)
  \/ unlockDocumentStoreLoad(2)
  \/ unlockDocumentStoreSave(2)
  \/ \E key \in Keys, item \in DeclItems : putDuringScan(1, 2, key, item)
  \/ \E key \in Keys : deleteDuringScan(1, 2, key)

SpecIndexBuild == InitIndexBuild /\ [][NextIndexBuild]_vars


\* ------------------------------------------------------------ claims
ItemKeysOf(store, collection) == KvKeysUnder(store, <<StoreName, collection.name>>)

\* The entries index has in the store: its keys and their values.
EntriesOf(store, collection, index) ==
  LET prefix == <<StoreName, collection.name \o ":" \o makeIndexName(index.keys)>>
  IN {<<k, store[k]>> : k \in KvKeysUnder(store, prefix)}

\* What the projection of an item on an index is to be: the object of the
\* projected properties the item has, undefined when it has none of them.
ProjectionOf(item, index) ==
  LET S == DOMAIN item \cap Range(index.projection)
  IN IF S = {} THEN {} ELSE {[k \in S |-> item[k]]}

\* The entries index is to have for the items of the collection.
EntriesFor(store, collection, index) ==
  LET valuesOf(item) == [i \in 1..Len(index.keys) |-> Prop(item, index.keys[i])]
      itemAt(k) == CHOOSE o \in store[k] : TRUE
  IN {<<(<<StoreName, collection.name \o ":" \o makeIndexName(index.keys)>>
           \o valuesOf(itemAt(k)) \o <<Last(k)>>),
        ProjectionOf(itemAt(k), index)>> :
        k \in {x \in ItemKeysOf(store, collection) :
                 ~Includes(valuesOf(itemAt(x)), Undef)}}

IndexesConsistent(store, collection) ==
  \A i \in 1..Len(collection.indexes) :
    EntriesOf(store, collection, collection.indexes[i])
      = EntriesFor(store, collection, collection.indexes[i])

\* C1: after any sequence of puts and deletes on the handle, every declared
\* index of the collection holds exactly one entry, with the item's
\* projection, for each item whose index values are all defined, and no
\* other entry.
C1_IndexConsistency == IndexesConsistent(kv, CollC)

\* An item was deleted, and an item that has a value for "a" and none for
\* "b" is in the collection.
C1_Witness ==
  /\ op.pc = "done"
  /\ outcome = "delete:ok"
  /\ \E k \in Keys :
       /\ KvHas(kv, makeItemKey(CollC, k))
       /\ \E o \in kv[makeItemKey(CollC, k)] : "a" \in DOMAIN o /\ "b" \notin DOMAIN o

\* C2: the store changes only when the transaction of a put or delete
\* commits, then by all the writes of the transaction at once, which leave
\* the item and its index entries matching; a put or delete that fails
\* changes nothing in the store and emits no event.
C2_AtomicWithIndexes ==
  [][ /\ kv' # kv => op.pc = "commit" /\ kv' = tr /\ IndexesConsistent(kv', CollC)
      /\ outcome' \in {"put:failed", "delete:failed"} /\ outcome = "none"
           => kv' = kv /\ evt' = <<>> ]_vars

\* A put with errorIfExists failed on a key that holds an item.
C2_Witness ==
  /\ outcome = "put:failed"
  /\ op.pc = "done"
  /\ \E k \in Keys : KvHas(kv, makeItemKey(CollC, k))

\* C5: get after a put returns the item put, also over another item; get
\* with errorIfMissing false after a delete returns nothing.
C5_RoundTrip ==
  [][ /\ op.pc = "commit" /\ outcome' = "put:ok"
           => get(kv', CollC, op.key, TRUE) = [ok |-> TRUE, item |-> {op.item}]
      /\ op.pc = "commit" /\ outcome' = "delete:ok"
           => get(kv', CollC, op.key, FALSE) = [ok |-> TRUE, item |-> {}]
      /\ \A key \in Keys :
           DeleteBegin(key, FALSE) /\ outcome' = "delete:nothing"
             => get(kv', CollC, key, FALSE) = [ok |-> TRUE, item |-> {}] ]_vars

\* A put over another item is about to commit.
C5_Witness ==
  /\ op.pc = "commit"
  /\ op.kind = "put"
  /\ op.old # {}
  /\ op.old # {op.item}


\* The prefix the finds of the forEach in progress scan, and the item keys
\* under it in the order of the key-value store.
ForEachPrefix ==
  IF DOMAIN fe.query = {} /\ fe.order = <<>>
    THEN <<StoreName, CollC.name>>
    ELSE makeIndexKeyForQuery(
           CollC,
           CHOOSE x \in findIndexForQueryAndOrder(CollC, fe.query, fe.order) : TRUE,
           fe.query)

ForEachExpected ==
  LET keys == SortKeys(KvKeysUnder(kv, ForEachPrefix), ForEachPrefix)
  IN [i \in 1..Len(keys) |-> Last(keys[i])]

IsPrefixOf(s, t) == Len(s) <= Len(t) /\ SubSeq(t, 1, Len(s)) = s

\* The index the forEach in progress selected has as many keys as the
\* query and the order give.
ForEachIndexIsExact ==
  \A x \in findIndexForQueryAndOrder(CollC, fe.query, fe.order) :
    Len(x.keys) = Cardinality(DOMAIN fe.query) + Len(fe.order)

\* C9: forEach calls fn once for each item under the prefix, in the order
\* of the key-value store, never again for an item it has visited, and ends
\* at the first empty batch.
C9_ForEachVisitsEachOnce ==
  /\ fe.pc \in {"run", "done"} => IsPrefixOf(fe.visited, ForEachExpected)
  /\ fe.pc = "done" => fe.visited = ForEachExpected

\* The same, for the calls in which the index selected has no more keys
\* than the query and the order give.
ForEachVisitsEachOnceOnExactIndex ==
  ForEachIndexIsExact => C9_ForEachVisitsEachOnce


\* The queries that select IndexA, the index with a projection, and the
\* property lists within its projection.
QueriesOnA == [{"a"} -> Vals]
ListsInProjectionOfA == {<<"p">>, <<"b">>, <<"p", "b">>, <<"b", "p">>}

\* A value restricted to the properties in P; undefined when none is left.
RestrictedTo(value, P) ==
  LET o == flatten(value)
  IN IF DOMAIN o \cap P = {} THEN {} ELSE {[k \in DOMAIN o \cap P |-> o[k]]}

FindWithProperties(query, props) ==
  find(kv, CollC, FindOptions(query, <<>>, {}, 0, FALSE, props))

FindWithStar(query) ==
  find(kv, CollC, FindOptions(query, <<>>, {}, 0, TRUE, <<>>))

\* C8 as stated: find with properties P within the projection of the index
\* returns the pairs that find with '*' returns, each value restricted to P.
C8_ProjectionRestrictedToP ==
  op.pc = "idle" /\ fe.pc = "idle" =>
  \A query \in QueriesOnA, props \in ListsInProjectionOfA :
    Range(FindWithProperties(query, props).items)
      = {[key |-> x.key, value |-> RestrictedTo(x.value, Range(props))] :
           x \in Range(FindWithStar(query).items)}

\* C8, amended: find with properties P within the projection of the index
\* returns the keys that find with '*' returns, in the same order, each
\* with the item's value restricted to the whole projection of the index.
C8_ProjectionEquivalence ==
  op.pc = "idle" /\ fe.pc = "idle" =>
  \A query \in QueriesOnA, props \in ListsInProjectionOfA :
    LET rp == FindWithProperties(query, props)
        rs == FindWithStar(query)
    IN /\ rp.ok /\ rs.ok
       /\ rp.items = [i \in 1..Len(rs.items) |->
                        [key |-> rs.items[i].key,
                         value |-> RestrictedTo(rs.items[i].value,
                                                Range(IndexA.projection))]]

\* An item that has both projected properties is found by a query on "a".
C8_Witness ==
  /\ op.pc = "idle"
  /\ fe.pc = "idle"
  /\ \E query \in QueriesOnA :
       \E x \in Range(FindWithProperties(query, <<"p">>).items) :
         x.value = {[p |-> 1, b |-> 1]}

\* ---------------------------------------------- claims on the handles
\* Where a handle is between the end of lockDocumentStore and the end of
\* unlockDocumentStore.
LockedSteps ==
  {"upgrade", "migrate", "collection", "addedIndexes", "addIndex", "addIndexItem",
   "addIndexSave", "removedIndexes", "removedIndexSave", "removed",
   "removedCollection", "unlock", "unlockSave"}

HoldsLock(h) == hs[h].pc \in LockedSteps

\* C3: of the handles that initialize the same existing store, at most one
\* is past lockDocumentStore and not past unlockDocumentStore, the record
\* says isLocked all that time, and a handle leaves the loop of
\* lockDocumentStore only in a turn that read isLocked false.
C3_MigrationMutualExclusion ==
  /\ [](/\ Cardinality({h \in Handles : HoldsLock(h)}) <= 1
        /\ \A h \in Handles : HoldsLock(h) => RecordOf(kv).isLocked)
  /\ [][\A h \in Handles :
          hs[h].pc = "lock" /\ hs'[h].pc # "lock"
            => ~RecordOf(kv).isLocked /\ RecordOf(kv').isLocked]_vars

\* A handle is building an index while the other is in the loop of
\* lockDocumentStore.
C3_Witness ==
  \E h1, h2 \in Handles :
    /\ h1 # h2
    /\ hs[h1].pc = "addIndexItem"
    /\ hs[h2].pc = "lock"
    /\ hs[h2].collections # hs[h1].collections

\* C4: when initializeDocumentStore has returned, without error, the record
\* holds the declarations of the handle: the declared collections, live,
\* with the declared indexes (keys and projection), and every other
\* collection marked as removed, with no index.
C4_RecordHoldsDeclarations ==
  \A h \in Handles :
    hs[h].pc = "ready" /\ hs[h].result = "ok"
      => Reconciled(RecordOf(kv), hs[h].collections)

\* The same with the projections left out: the keys of the indexes of the
\* record are the keys of the declared indexes.
RecordHoldsDeclaredKeys ==
  \A h \in Handles :
    hs[h].pc = "ready" /\ hs[h].result = "ok"
      => LET record == RecordOf(kv)
             keysOf(indexes) == {indexes[i].keys : i \in 1..Len(indexes)}
         IN /\ \A i \in 1..Len(hs[h].collections) :
                 LET e == FindCollection(record.collections, hs[h].collections[i].name)
                 IN /\ e # 0
                    /\ ~record.collections[e].hasBeenRemoved
                    /\ Len(record.collections[e].indexes)
                         = Len(hs[h].collections[i].indexes)
                    /\ keysOf(record.collections[e].indexes)
                         = keysOf(hs[h].collections[i].indexes)
            /\ \A e \in 1..Len(record.collections) :
                 FindCollection(hs[h].collections, record.collections[e].name) = 0
                   => /\ record.collections[e].hasBeenRemoved
                      /\ record.collections[e].indexes = <<>>

\* C6 as stated: a handle that initializes a store whose record holds its
\* declarations writes nothing to the key-value store and emits
\* didInitialize only.
C6_ReopenWritesNothing ==
  \A h \in Handles :
    hs[h].pc = "ready" /\ hs[h].result = "ok" /\ hs[h].matched
      => hs[h].writes = 0 /\ hs[h].events = <<"didInitialize">>

\* C6, amended: such a handle emits didInitialize only and writes the
\* record twice, to set isLocked and to clear it; no step of its
\* initialization changes anything else in the key-value store.
C6_ReopenWritesOnlyTheLock ==
  /\ [](\A h \in Handles :
          hs[h].pc = "ready" /\ hs[h].result = "ok" /\ hs[h].matched
            => hs[h].writes = 2 /\ hs[h].events = <<"didInitialize">>)
  /\ [][\A h \in Handles :
          /\ hs[h].isInitializing
          /\ _loadDocumentStoreRecord(kv) # {}
          /\ Reconciled(RecordOf(kv), hs[h].collections)
          => \/ kv' = kv
             \/ kv' = _saveDocumentStoreRecord(
                        kv, [RecordOf(kv) EXCEPT !.isLocked = ~@])]_vars

\* A process was started again on a store that holds an item and whose
\* record held its declarations, and its initializeDocumentStore returned.
C6_Witness ==
  /\ hs[1].pc = "ready"
  /\ hs[1].result = "ok"
  /\ hs[1].matched
  /\ restarts > 0
  /\ KvHas(kv, <<StoreName, "P", 1>>)

\* C7: migrateDocumentStore on a record that holds the declarations writes
\* nothing (the one write of the call so far is the lock's), builds and
\* removes no index, and emits neither migrationDidStart nor
\* migrationDidStop.
C7_MigrationIdempotence ==
  \A h \in Handles :
    hs[h].matched /\ hs[h].pc # "ready"
      => /\ hs[h].pc \in {"collection", "addedIndexes", "removedIndexes", "removed",
                          "unlock", "unlockSave"}
         /\ hs[h].writes = 1
         /\ hs[h].added = {}
         /\ hs[h].events = <<>>
         /\ ~hs[h].migrationDidStartEventHasBeenEmitted

\* migrateDocumentStore has returned on a record that held the two declared
\* collections, in a store that holds an item.
C7_Witness ==
  /\ hs[1].matched
  /\ hs[1].pc = "unlock"
  /\ Len(hs[1].collections) = 2
  /\ KvHas(kv, <<StoreName, "P", 1>>)

\* C10: an index that migrateDocumentStore adds to the record has, when it
\* is added and when initializeDocumentStore returns, one entry for each
\* item of the collection that has all its values, and no other; and an
\* index comes into the descriptor of a collection of the record only so.
C10_IndexBuiltBeforeRecorded ==
  [][\A h \in Handles :
       /\ hs'[h].added # hs[h].added /\ hs'[h].added # {}
            => \A x \in hs'[h].added \ hs[h].added :
                 /\ EntriesOf(kv', hs[h].collections[x[1]], x[2])
                      = EntriesFor(kv', hs[h].collections[x[1]], x[2])
                 /\ kv' = _saveDocumentStoreRecord(kv, RecordOf(kv'))
       /\ hs[h].pc = "unlockSave" /\ hs'[h].pc = "ready"
            => \A x \in hs'[h].added :
                 EntriesOf(kv', hs[h].collections[x[1]], x[2])
                   = EntriesFor(kv', hs[h].collections[x[1]], x[2])
       /\ hs[h].isInitializing /\ _loadDocumentStoreRecord(kv) # {}
            => \A e \in 1..Len(RecordOf(kv).collections) :
                 \A index \in Range(RecordOf(kv').collections[e].indexes)
                                \ Range(RecordOf(kv).collections[e].indexes) :
                   <<FindCollection(hs[h].collections, RecordOf(kv).collections[e].name),
                     index>> \in hs'[h].added \ hs[h].added]_vars

\* initializeDocumentStore has returned after it added the index on "b" to
\* a collection of more items than a batch holds, with and without a value
\* for "b".
C10_Witness ==
  /\ hs[1].pc = "ready"
  /\ <<1, DeclIndexB>> \in hs[1].added
  /\ Cardinality(ItemKeysOf(kv, CollP(<<>>))) > DefaultBatchSize
  /\ \E k \in Keys : KvGet(kv, <<StoreName, "P", k>>) = {[a |-> 1]}
  /\ \E k \in Keys : KvGet(kv, <<StoreName, "P", k>>) = {[a |-> 1, b |-> 1]}

\* How many times an event is in a sequence of events, and where first.
Count(events, event) == Cardinality({i \in 1..Len(events) : events[i] = event})
First(events, event) ==
  CHOOSE i \in 1..Len(events) :
    events[i] = event /\ \A j \in 1..(i - 1) : events[j] # event

\* Where a handle is in migrateDocumentStore, after its read of the record.
MigrateSteps ==
  {"collection", "addedIndexes", "addIndex", "addIndexItem", "addIndexSave",
   "removedIndexes", "removedIndexSave", "removed", "removedCollection"}

\* C11: in a call, migrationDidStart is emitted at most once, and no later
\* than the first write of migrateDocumentStore; migrationDidStop is emitted
\* once, after it, by the time migrateDocumentStore is left, with or without
\* an error, and only then; the flag is set between the two only, so that
\* the next call on the handle emits them again.
C11_MigrationEvents ==
  /\ [](\A h \in Handles :
          LET starts == Count(hs[h].events, "migrationDidStart")
              stops == Count(hs[h].events, "migrationDidStop")
          IN /\ starts <= 1
             /\ stops <= starts
             /\ stops = 1 => First(hs[h].events, "migrationDidStart")
                               < First(hs[h].events, "migrationDidStop")
             /\ hs[h].migrationDidStartEventHasBeenEmitted <=> starts = 1 /\ stops = 0
             /\ hs[h].pc \in MigrateSteps => stops = 0
             /\ hs[h].pc \notin MigrateSteps => stops = starts)
  /\ [][\A h \in Handles :
          hs[h].pc \in MigrateSteps /\ kv' # kv
            => Count(hs'[h].events, "migrationDidStart") = 1]_vars

\* A call that removed an index and then failed on a collection marked as
\* removed emitted the two events; the next call on the handle, after
\* removeCollectionsMarkedAsRemoved, added the collection and emitted them
\* again.
C11_Witness ==
  /\ hs[1].pc = "ready"
  /\ Count(hs[1].previous, "migrationDidStart") = 1
  /\ Count(hs[1].previous, "migrationDidStop") = 1
  /\ hs[1].events = <<"migrationDidStart", "migrationDidStop", "didInitialize">>

\* The names of the collections of a record that are marked as removed,
\* and of those that are live.
RemovedNames(record) ==
  {record.collections[e].name :
     e \in {x \in 1..Len(record.collections) : record.collections[x].hasBeenRemoved}}
LiveNames(record) ==
  {record.collections[e].name :
     e \in {x \in 1..Len(record.collections) : ~record.collections[x].hasBeenRemoved}}

\* The item keys of the store: <<name, collection, key>>.
ItemKeys(store) == {k \in DOMAIN store : Len(k) = 3}

\* The index entries a collection of this name has in the store.
IndexEntriesOf(store, name) ==
  UNION {KvKeysUnder(store, <<StoreName, makeIndexCollectionName(name, makeIndexName(keys))>>) :
           keys \in {<<"a">>, <<"b">>}}

\* C12: a collection is marked as removed only by an initialization that
\* does not declare it, and from then on its descriptor has no index and the
\* store no index entry of it; no step of an initialization touches an item.
\* An item of the store is deleted beside delete(), and a descriptor leaves
\* the record, only in removeCollectionsMarkedAsRemoved and only for a
\* collection marked as removed; that call changes nothing else, and when it
\* returns the record has no collection marked as removed.
C12_RemovalTombstone ==
  /\ [](_loadDocumentStoreRecord(kv) # {} =>
          \A e \in 1..Len(RecordOf(kv).collections) :
            RecordOf(kv).collections[e].hasBeenRemoved
              => /\ RecordOf(kv).collections[e].indexes = <<>>
                 /\ IndexEntriesOf(kv, RecordOf(kv).collections[e].name) = {})
  /\ [][_loadDocumentStoreRecord(kv) # {} /\ _loadDocumentStoreRecord(kv') # {} =>
          \A h \in Handles :
            /\ hs[h].isInitializing
                 => /\ \A k \in ItemKeys(kv) : KvGet(kv', k) = kv[k]
                    /\ \A name \in RemovedNames(RecordOf(kv')) \ RemovedNames(RecordOf(kv)) :
                         /\ name \in LiveNames(RecordOf(kv))
                         /\ FindCollection(hs[h].collections, name) = 0
            /\ hs'[h].rm = hs[h].rm /\ hs[h].pc = "ready"
                 => /\ RemovedNames(RecordOf(kv')) = RemovedNames(RecordOf(kv))
                    /\ LiveNames(RecordOf(kv')) = LiveNames(RecordOf(kv))
                    /\ \A k \in ItemKeys(kv) \ ItemKeys(kv') :
                         k[2] \in LiveNames(RecordOf(kv))
            /\ hs'[h].rm # hs[h].rm
                 => /\ LiveNames(RecordOf(kv')) = LiveNames(RecordOf(kv))
                    /\ \A k \in DOMAIN kv \ ItemKeys(kv) :
                         k # <<StoreName>> => KvGet(kv', k) = kv[k]
                    /\ \A k \in ItemKeys(kv) :
                         IF k[2] \in LiveNames(RecordOf(kv))
                           THEN KvGet(kv', k) = kv[k]
                           ELSE KvGet(kv', k) \in {{}, kv[k]}
                    /\ \A e \in 1..Len(RecordOf(kv').collections) :
                         \E x \in 1..Len(RecordOf(kv).collections) :
                           RecordOf(kv').collections[e] = RecordOf(kv).collections[x]
                    /\ hs'[h].rm.pc = "idle" => RemovedNames(RecordOf(kv')) = {}]_vars

\* removeCollectionsMarkedAsRemoved is at Q, which is marked as removed and
\* has its item still, in a store that holds an item of P and its entry in
\* the index on "a".
C12_Witness ==
  /\ hs[1].rm.pc = "loop"
  /\ hs[1].rm.i <= Len(hs[1].rm.collectionNames)
  /\ hs[1].rm.collectionNames[hs[1].rm.i] = "Q"
  /\ "Q" \in RemovedNames(RecordOf(kv))
  /\ KvHas(kv, <<StoreName, "Q", 1>>)
  /\ KvHas(kv, <<StoreName, "P", 1>>)
  /\ KvHas(kv, <<StoreName, "P:a", 1, 1>>)

\* ------------------------------------- claims on the calls on a handle
\* C13 as stated: initializeDocumentStore called on a transaction context
\* fails, whatever the state of the root handle.
C13_ContextInitializeFails ==
  \A c \in Callers :
    hs[1].calls[c].did \in {"initialize:returned", "initialize:entered", "initialize:error"}
      => hs[1].calls[c].did = "initialize:error"

\* C13, amended: initializeDocumentStore called on a transaction context
\* fails when the root handle is neither initialized nor initializing, and
\* returns at once when it is either; destroyAll called on a transaction
\* context fails; neither call changes the key-value store or the
\* initialization state of the handle.
C13_TransactionMisuse ==
  [][\A c \in Callers :
       hs[1].calls[c].pc = "inside" /\ hs'[1].calls[c].pc = "insideDone"
         => /\ kv' = kv
            /\ hs'[1].hasBeenInitialized = hs[1].hasBeenInitialized
            /\ hs'[1].isInitializing = hs[1].isInitializing
            /\ hs'[1].pc = hs[1].pc
            /\ hs'[1].calls[c].did \in
                 {"initialize:returned", "initialize:error", "destroyAll:error"}
            /\ hs'[1].calls[c].did = "initialize:error"
                 => ~hs[1].hasBeenInitialized /\ ~hs[1].isInitializing
            /\ hs'[1].calls[c].did = "initialize:returned"
                 => hs[1].hasBeenInitialized \/ hs[1].isInitializing]_vars

\* On two transaction contexts of a handle, initializeDocumentStore has
\* returned on one, and failed on the other after a destroyAll on the root
\* handle; the store holds a record again.
C13_Witness ==
  /\ hs[1].calls[1].did = "initialize:error"
  /\ hs[1].calls[2].did = "initialize:returned"
  /\ ~hs[1].hasBeenInitialized

\* ------------------------------------ claims on the versions of the record
\* C14: no step takes the version of the record down; on a record of a
\* version above VERSION, initializeDocumentStore gets no further than
\* upgradeDocumentStore, fails to its caller and leaves the handle not
\* initialized, and no step of it changes the version or the collections
\* of the record.
C14_VersionSafety ==
  /\ [](\A h \in Handles :
          _loadDocumentStoreRecord(kv) # {} /\ RecordOf(kv).version > VERSION
            => /\ ~hs[h].hasBeenInitialized
               /\ hs[h].pc \in {"new", "create", "lock", "upgrade", "unlock", "unlockSave"}
               /\ hs[h].pc \in {"unlock", "unlockSave"} => hs[h].failed
               /\ hs[h].pc = "new" => hs[h].result \in {"none", "error"})
  /\ [][_loadDocumentStoreRecord(kv) # {} =>
          /\ _loadDocumentStoreRecord(kv') # {}
          /\ RecordOf(kv').version >= RecordOf(kv).version
          /\ \A h \in Handles :
               hs[h].isInitializing /\ RecordOf(kv).version > VERSION
                 => /\ RecordOf(kv').version = RecordOf(kv).version
                    /\ RecordOf(kv').collections = RecordOf(kv).collections]_vars

\* initializeDocumentStore has failed on a record of the version after
\* VERSION.
C14_Witness ==
  /\ hs[1].pc = "new"
  /\ hs[1].result = "error"
  /\ hs[1].writes = 2
  /\ RecordOf(kv).version = VERSION + 1

\* C15: a call of initializeDocumentStore that took the lock ends, returning
\* or failing (in upgradeDocumentStore or in migrateDocumentStore), with a
\* save that leaves isLocked false; so the record is locked only while a
\* call is between lockDocumentStore and unlockDocumentStore.
C15_ScopedUnlock ==
  /\ [](_loadDocumentStoreRecord(kv) # {} /\ RecordOf(kv).isLocked
          => \E h \in Handles : HoldsLock(h))
  /\ [][\A h \in Handles :
          HoldsLock(h) /\ hs[h].isInitializing /\ ~hs'[h].isInitializing
            => /\ _loadDocumentStoreRecord(kv') # {}
               /\ ~RecordOf(kv').isLocked
               /\ hs'[h].writes >= 2
               /\ hs'[h].result = (IF hs[h].failed THEN "error" ELSE "ok")]_vars

\* A call has failed inside migrateDocumentStore and the record is not
\* locked.
C15_Witness ==
  /\ hs[1].pc = "new"
  /\ hs[1].result = "error"
  /\ Count(hs[1].events, "migrationDidStop") = 1
  /\ ~RecordOf(kv).isLocked

\* C16: a call whose upgradeDocumentStore emitted upgradeDidStart has, when
\* it ends, emitted upgradeDidStop after it, and the record is of version
\* VERSION.
C16_UpgradeEvents ==
  \A h \in Handles :
    ~hs[h].isInitializing /\ Count(hs[h].events, "upgradeDidStart") > 0
      => /\ Count(hs[h].events, "upgradeDidStop") = Count(hs[h].events, "upgradeDidStart")
         /\ First(hs[h].events, "upgradeDidStart") < First(hs[h].events, "upgradeDidStop")
         /\ RecordOf(kv).version = VERSION

\* ------------------------------------------ claims on concurrent calls
\* A caller begins a call of get, put or transaction in this step.
Begins(h, c) ==
  hs[h].calls[c].pc = "idle" /\ hs'[h].calls[c].pc \in {"op", "awaitInit"}

\* C17: on a handle at most one call runs the steps of
\* initializeDocumentStore, and isInitializing is set exactly while it does;
\* the initializeDocumentStore of a call made on a handle that is
\* initializing or initialized returns with no access to the store and no
\* change of the handle, and on any other handle it begins the steps;
\* didInitialize is emitted exactly in the step that sets
\* hasBeenInitialized, once in a call; after a call that failed the handle
\* is neither initializing nor initialized.
C17_InitializationStateMachine ==
  /\ [](\A h \in Handles :
          /\ Cardinality({c \in Callers : hs[h].calls[c].pc = "awaitInit"}) <= 1
          /\ hs[h].isInitializing
               => /\ ~hs[h].hasBeenInitialized
                  /\ hs[h].pc \notin {"new", "ready"}
                  /\ \E c \in Callers : hs[h].calls[c].pc = "awaitInit"
          /\ ~hs[h].isInitializing => hs[h].pc \in {"new", "ready"}
          /\ ~hs[h].isInitializing /\ hs[h].result = "error"
               => ~hs[h].hasBeenInitialized /\ hs[h].pc = "new"
          /\ Count(hs[h].events, "didInitialize") <= 1)
  /\ [][\A h \in Handles :
          /\ \A c \in Callers :
               Begins(h, c) =>
                 /\ kv' = kv
                 /\ IF hs[h].isInitializing \/ hs[h].hasBeenInitialized
                      THEN /\ hs'[h].calls[c].pc = "op"
                           /\ hs' = [hs EXCEPT ![h].calls[c] = hs'[h].calls[c]]
                      ELSE /\ hs'[h].calls[c].pc = "awaitInit"
                           /\ hs'[h].isInitializing
                           /\ hs'[h].pc = "create"
          /\ (~hs[h].hasBeenInitialized /\ hs'[h].hasBeenInitialized)
               <=> (Count(hs'[h].events, "didInitialize")
                      = Count(hs[h].events, "didInitialize") + 1)]_vars

\* After a call that failed in upgradeDocumentStore, a later call of the
\* same caller runs the steps again, while the call of the other caller,
\* made on the initializing handle, is past its initializeDocumentStore.
C17_Witness ==
  /\ hs[1].previous = <<"upgradeDidStart">>
  /\ hs[1].isInitializing
  /\ hs[1].pc = "lock"
  /\ hs[1].calls[1].pc = "awaitInit"
  /\ hs[1].calls[2].pc = "op"

\* C18: a call of get or put reaches the store with an item key only on a
\* handle whose initializeDocumentStore has completed.
C18_InitializedBeforeUse ==
  [][\A h \in Handles : \A c \in Callers :
       hs[h].calls[c].pc = "op" /\ hs[h].calls[c].kind \in {"get", "put"}
         /\ hs'[h].calls[c].pc = "idle"
         => hs[h].hasBeenInitialized /\ ~hs[h].isInitializing]_vars

\* ------------------------------- claims on writers during an index build
\* C19: when the initializeDocumentStore that added an index returns, the
\* index has one entry for each item then in the collection that has all
\* its values, and no other, whatever the puts and deletes of an
\* initialized handle meanwhile.
C19_IndexBuiltUnderWrites ==
  [][\A h \in Handles :
       hs[h].pc = "unlockSave" /\ hs'[h].pc = "ready"
         => \A x \in hs'[h].added :
              EntriesOf(kv', hs[h].collections[x[1]], x[2])
                = EntriesFor(kv', hs[h].collections[x[1]], x[2])]_vars

\* ------------------------------------------------ claims on transactions
\* C20: insideTransaction is false on the root handle and true on a
\* transaction context. While fn runs, nothing it wrote is in the store;
\* transaction(fn2) on the context opens no key-value transaction: the
\* writes staged so far stay staged; put and delete on the context read
\* and write in the key-value transaction of the outer call and commit
\* nothing; each leaves the item and every index entry of it staged
\* together; the staged writes change only by these; when fn returns the
\* store becomes what was staged, and when fn fails the store is as it was.
C20_NestedTransactionsFlattened ==
  /\ [](~insideTransaction("root") /\ insideTransaction("transaction"))
  /\ [][\A h \in Handles : \A c \in Callers :
          LET call == hs[h].calls[c]
              after == hs'[h].calls[c]
          IN call.pc = "inside" =>
               /\ after.pc = "inside" => kv' = kv
               /\ after.did # call.did => tr' = tr /\ after.pc = "inside"
               /\ op.pc = "idle" /\ op'.pc # "idle"
                    => /\ tr' = tr
                       /\ op'.old = KvGet(tr, makeItemKey(CollC, op'.key))
               /\ op.pc = "commit" /\ op'.pc = "idle" /\ after.pc = "inside"
                    => /\ tr' = tr
                       /\ KvGet(tr, makeItemKey(CollC, op.key))
                            = (IF op.kind = "put" THEN {op.item} ELSE {})
                       /\ IndexesConsistent(tr, CollC)
               /\ tr' # tr /\ after.pc = "inside"
                    => op.pc \in {"put", "delete", "indexes"}
               /\ after.pc = "idle"
                    => /\ outcome' \in {"transaction:ok", "transaction:failed"}
                       /\ kv' = (IF outcome' = "transaction:ok" THEN tr ELSE kv)]_vars

\* fn has put an item and called transaction(fn2) on its context, and the
\* put that fn2 made is about to return: both items and their index
\* entries are staged in the one key-value transaction, and none of them
\* is in the store.
C20_Witness ==
  /\ hs[1].calls[1].pc = "inside"
  /\ hs[1].calls[1].did = "transaction:entered"
  /\ op.pc = "commit"
  /\ op.kind = "put"
  /\ evt = <<"didPutItem", "didPutItem">>
  /\ \A key \in Keys : KvGet(tr, makeItemKey(CollC, key)) # {}
  /\ \A key \in Keys : KvGet(kv, makeItemKey(CollC, key)) = {}
  /\ IndexesConsistent(tr, CollC)

\* ------------------------------------------------ claims on findAndDelete
\* C21: when findAndDelete ends it has returned, the items it deleted are
\* those its options selected when it began, their number is what it
\* returns, every other item is as it was, and every index has exactly the
\* entries of the items that remain.
C21_FindAndDelete ==
  fe.pc = "done" /\ "deletedItemsCount" \in DOMAIN fe =>
    LET matched == Matched(fe.before, fe.query, fe.order)
    IN /\ fe.result = "ok"
       /\ \A key \in Keys :
            KvGet(kv, makeItemKey(CollC, key))
              = (IF key \in matched THEN {}
                 ELSE KvGet(fe.before, makeItemKey(CollC, key)))
       /\ fe.deletedItemsCount = Cardinality(matched)
       /\ IndexesConsistent(kv, CollC)

\* --------------------------------------------- claims on the loop of the lock
\* C22: a handle that is in the loop of lockDocumentStore comes to hold the
\* lock, and a call of initializeDocumentStore in progress comes to its
\* end, initialized or failed; the record is locked only while a handle
\* holds the lock, so a handle in the loop that finds the store locked is
\* waiting for a holder that goes on.
C22_LockLiveness ==
  /\ [](_loadDocumentStoreRecord(kv) # {} /\ RecordOf(kv).isLocked
          => \E g \in Handles : HoldsLock(g))
  /\ \A h \in Handles :
       /\ hs[h].pc = "lock" ~> HoldsLock(h)
       /\ hs[h].isInitializing ~> (~hs[h].isInitializing /\ hs[h].result \in {"ok", "error"})

\* A handle is in the loop of lockDocumentStore, on a locked store, while
\* the other, past its upgradeDocumentStore, is removing a collection that
\* is not declared any more.
C22_Witness ==
  /\ hs[1].pc = "lock"
  /\ RecordOf(kv).isLocked
  /\ hs[2].pc = "removedCollection"
  /\ hs[2].writes >= 2

\* ------------------------------------- claims on the saves of the record
\* C23: isLocked changes only in the lockDocumentStore and the
\* unlockDocumentStore of the handle that holds the lock, it is true as
\* long as a handle holds the lock and false when none does; and a save
\* made by removeCollectionsMarkedAsRemoved changes the record only by
\* taking out descriptors marked as removed.
C23_NoLostDescriptorUpdates ==
  /\ [](\A h \in Handles : HoldsLock(h) => RecordOf(kv).isLocked)
  /\ [](RecordOf(kv).isLocked => \E h \in Handles : HoldsLock(h))
  /\ [][/\ RecordOf(kv').isLocked # RecordOf(kv).isLocked
             => \E h \in Handles : HoldsLock(h) # (hs'[h].pc \in LockedSteps)
        /\ \A h \in Handles :
             hs'[h].rm # hs[h].rm /\ RecordOf(kv') # RecordOf(kv)
               => /\ RecordOf(kv').isLocked = RecordOf(kv).isLocked
                  /\ \A e \in 1..Len(RecordOf(kv).collections) :
                       ~RecordOf(kv).collections[e].hasBeenRemoved
                         => \E x \in 1..Len(RecordOf(kv').collections) :
                              RecordOf(kv').collections[x] = RecordOf(kv).collections[e]]_vars

====
